---- MODULE Spec2Model ----
(***************************************************************************)
(* A model of hats: an HTTP <-> NATS JetStream bridge.                     *)
(*   pub.go   Publisher.Publish, TestWebhook.Handle, getNatsHeader,        *)
(*            Server.Serve, bearerAuth                                     *)
(*   sub.go   NewSubscriber, Subscriber.Subscribe/Stop, Consumer.send,     *)
(*            getOrCreateStream, getOrCreateConsumer                       *)
(*   main.go  Config.init, main                                            *)
(* JetStream (the log) and the external webhooks are the environment.      *)
(***************************************************************************)
EXTENDS Integers, Sequences, FiniteSets, TLC

VARIABLES
    pc,            \* where main() is
    cfg,           \* the Config value (flags / file already parsed)
    logStreams,    \* the log: stream name -> set of subjects it captures
    logConsumers,  \* the log: <<stream, durable>> -> consumer configuration
    stored,        \* the log: the messages stored, in stored order
    acked,         \* the log: per durable consumer, the acknowledged messages
    numDelivered,  \* the log: per durable consumer and message, deliveries so far
    nsPos,         \* NewSubscriber: position of its two loops
    nsConsumers,   \* NewSubscriber: the local slice `consumers`
    consumers,     \* Subscriber.consumers
    contexts,      \* Subscriber.contexts: per ConsumeContext, its consumer
    subPos,        \* Subscribe: the calls made, and the iterations of the loop
                   \* done in the current call
    live,          \* the ConsumeContexts that are delivering
    inflight,      \* per ConsumeContext: the send invocation waiting for its webhook
    posts,         \* history: webhook POSTs issued, per consumer and message
    ackCalls,      \* history: msg.Ack() calls, per consumer and message
    lastSend,      \* history: per consumer, how its last send invocation ended
    reqCount,      \* number of HTTP requests the server has handled
    lastReq,       \* history: the last HTTP request handled
    lastResp,      \* history: its response
    lastPublish,   \* history: the PublishMsg calls that request made
    provisioning   \* history: the lookup and create calls of getOrCreate*

vars == <<pc, cfg, logStreams, logConsumers, stored, acked, numDelivered, nsPos,
          nsConsumers, consumers, contexts, subPos, live, inflight, posts, ackCalls,
          lastSend, reqCount, lastReq, lastResp, lastPublish, provisioning>>

----------------------------------------------------------------------------
(* Bounds of the model *)

\* HTTP requests handled in one run
MaxRequests == 2
\* messages the log's streams hold per subject before they reject a publish
MaxStored == 1
\* the delivery and history counters saturate here
MaxCount == 2
\* calls of Subscriber.Subscribe on one Subscriber
MaxSubscribeCalls == 2

----------------------------------------------------------------------------
(* Constants of the program *)

StatusOK == 200
StatusBadRequest == 400
StatusUnauthorized == 401
StatusInternalServerError == 500
\* MaxDeliver of a consumer the program creates: unlimited
UnlimitedDeliver == -1

Realm == "example"
DefaultAddr == ":8080"
NoResponse == [status |-> 0]
\* a request that made no PublishMsg call
NoPublish == [calls |-> <<>>, accepted |-> FALSE]
\* no send invocation is waiting for its webhook
Idle == [msg |-> 0]
\* no send invocation of the consumer has returned
NotSent == [msg |-> 0]
\* NewSubscriber has made no provisioning call
NoProvisioning ==
    [last |-> [kind |-> "none", name |-> "", existed |-> FALSE, lookupErr |-> FALSE,
               createCalled |-> FALSE, createErr |-> FALSE, err |-> FALSE],
     createCalls |-> <<>>]

Min(a, b) == IF a < b THEN a ELSE b
Bump(n) == Min(n + 1, MaxCount)

----------------------------------------------------------------------------
(* Strings the code inspects character by character are sequences of       *)
(* one-character strings; strings it only compares or concatenates are     *)
(* TLA+ strings.                                                           *)

NatsPrefix == <<"N", "a", "t", "s", "-">>
KeyAuthorization == <<"A", "u", "t", "h">>
KeyContentType == <<"C", "-", "T">>
KeyNatsMsgId == <<"N", "a", "t", "s", "-", "I", "d">>
KeyNatsExpected == <<"N", "a", "t", "s", "-", "E">>
KeyNatsBare == <<"N", "a", "t", "s", "-">>
KeyNatsNoDash == <<"N", "a", "t", "s", "x">>
KeyNatsShort == <<"N", "a", "t", "s">>
KeyLowerNats == <<"n", "a", "t", "s", "-", "I", "d">>
KeyXNats == <<"X", "-", "N", "a", "t", "s", "-">>
KeyLowerAuthorization == <<"a", "u", "t", "h">>

\* strings.HasPrefix
\* HasPrefix gone wrong: a key shorter than the prefix is matched on what it has
HasPrefix_NoLengthCheck(s, prefix) ==
    \A i \in 1..Min(Len(s), Len(prefix)) : s[i] = prefix[i]

HasPrefix(s, prefix) ==
    /\ Len(s) >= Len(prefix)
    /\ SubSeq(s, 1, Len(prefix)) = prefix

\* http.Header.Get / url.Values.Get: the first value of the key, or ""
Get(h, key) ==
    IF key \in DOMAIN h /\ Len(h[key]) > 0 THEN h[key][1] ELSE ""

\* getNatsHeader
\* getNatsHeader gone wrong: every header of the request is taken
getNatsHeader_All(h) == h

getNatsHeader(h) ==
    [key \in {k \in DOMAIN h : HasPrefix(k, NatsPrefix)} |-> h[key]]

----------------------------------------------------------------------------
(* The HTTP server: bearerAuth, Publisher.Publish, TestWebhook.Handle       *)
(* A request is [route, query, header, bodyErr, body]; a response is        *)
(* [status, wwwAuthenticate, body].                                         *)

Response(status, body) ==
    [status |-> status, wwwAuthenticate |-> "", body |-> body]

\* Message, as built by Publish and by send
Message(subject, data, header) ==
    [Subject |-> subject, Data |-> data, Header |-> header]

\* bearerAuth: whether the request is passed on to the next handler
\* bearerAuth gone wrong: any Authorization header passes
bearerAuthPasses_AnyBearer(token, r) ==
    \/ token = ""
    \/ Get(r.header, KeyAuthorization) # ""

bearerAuthPasses(token, r) ==
    \/ token = ""
    \/ Get(r.header, KeyAuthorization) = "Bearer " \o token

\* bearerAuth: the response to a request that is not passed on
Unauthorized(realm) ==
    [status |-> StatusUnauthorized,
     wwwAuthenticate |-> "Bearer realm=\"" \o realm \o "\"",
     body |-> ""]

\* Publisher.Publish: the response, and the messages handed to js.PublishMsg.
\* logAccepts is the outcome of PublishMsg, should it be called.
\* Publish gone wrong: no validation of the subject or the body
Publish_NoValidation(r, logAccepts) ==
    [resp |-> Response(StatusOK, ""),
     published |-> <<Message(Get(r.query, "subject"), r.body, getNatsHeader(r.header))>>]

\* Publish gone wrong: a rejected publish is retried and answered 200
Publish_Retry(r, logAccepts) ==
    LET subject == Get(r.query, "subject")
        m == Message(subject, r.body, getNatsHeader(r.header))
    IN  IF subject = ""
        THEN [resp |-> Response(StatusBadRequest, "missing query parameter \"subject\""),
              published |-> <<>>]
        ELSE IF r.bodyErr
        THEN [resp |-> Response(StatusBadRequest, "failed to read body"),
              published |-> <<>>]
        ELSE IF ~logAccepts
        THEN [resp |-> Response(StatusOK, ""), published |-> <<m, m>>]
        ELSE [resp |-> Response(StatusOK, ""), published |-> <<m>>]

Publish(r, logAccepts) ==
    LET subject == Get(r.query, "subject")
        m == Message(subject, r.body, getNatsHeader(r.header))
    IN  IF subject = ""
        THEN [resp |-> Response(StatusBadRequest, "missing query parameter \"subject\""),
              published |-> <<>>]
        ELSE IF r.bodyErr
        THEN [resp |-> Response(StatusBadRequest, "failed to read body"),
              published |-> <<>>]
        ELSE IF ~logAccepts
        THEN [resp |-> Response(StatusInternalServerError, "publish failed"),
              published |-> <<m>>]
        ELSE [resp |-> Response(StatusOK, ""), published |-> <<m>>]

\* TestWebhook.Handle
\* Handle gone wrong: nothing is validated
Handle_Always200(r) == Response(StatusOK, "")

Handle(r) ==
    IF Get(r.query, "subject") = ""
    THEN Response(StatusBadRequest, "missing query parameter \"subject\"")
    ELSE IF r.bodyErr
    THEN Response(StatusBadRequest, "failed to read body")
    ELSE Response(StatusOK, "")

\* Server.Serve: the router. bearerAuth is a middleware of the whole router
\* (r.Use), in front of both routes.
\* Serve gone wrong: bearerAuth wraps the /pub route only
ServeHTTP_GatePubOnly(token, r, logAccepts) ==
    IF r.route = "/pub"
    THEN IF ~bearerAuthPasses(token, r)
         THEN [resp |-> Unauthorized(Realm), published |-> <<>>]
         ELSE Publish(r, logAccepts)
    ELSE [resp |-> Handle(r), published |-> <<>>]

ServeHTTP(token, r, logAccepts) ==
    IF ~bearerAuthPasses(token, r)
    THEN [resp |-> Unauthorized(Realm), published |-> <<>>]
    ELSE IF r.route = "/pub"
    THEN Publish(r, logAccepts)
    ELSE [resp |-> Handle(r), published |-> <<>>]


----------------------------------------------------------------------------
(* Configuration *)

WebhookConfig(url, key) == [URL |-> url, Key |-> key]
ConsumerConfig(name, webhook) == [DurableName |-> name, Webhook |-> webhook]
StreamConfig(name, cons) == [Name |-> name, Consumers |-> cons]

\* fmt.Sprintf("http://127.0.0.1%s/webhook", cfg.Server.Addr)
TestWebhookURL(addr) == "http://127.0.0.1" \o addr \o "/webhook"

ExternalURL == "http://h/x"
OtherURL == "http://d/y"
QueryURL == "http://h/x?a=1&subject=old"
BadQueryURL == "http://h/x?a=1&b=%zz&a=2"
MalformedURL == "http://[bad"

NoQuery == [k \in {} |-> <<>>]

\* a key=value pair of a raw query; escaped: key and value can be unescaped
Pair(key, value, escaped) == [key |-> key, value |-> value, escaped |-> escaped]

\* URL.RawQuery, on the URLs of the model: the pairs between the "&"s
RawQuery(u) ==
    CASE u = QueryURL -> <<Pair("a", "1", TRUE), Pair("subject", "old", TRUE)>>
      [] u = BadQueryURL ->
            <<Pair("a", "1", TRUE), Pair("b", "%zz", FALSE), Pair("a", "2", TRUE)>>
      [] OTHER -> <<>>

RECURSIVE ValuesOf(_, _)
\* the values url.ParseQuery collects for a key, in the order of the pairs
ValuesOf(raw, key) ==
    IF raw = <<>> THEN <<>>
    ELSE (IF Head(raw).key = key /\ Head(raw).escaped THEN <<Head(raw).value>> ELSE <<>>)
            \o ValuesOf(Tail(raw), key)

\* URL.Query: url.ParseQuery with its error dropped, so that a pair that
\* cannot be unescaped is left out
URLQuery(raw) ==
    [key \in {raw[n].key : n \in {x \in DOMAIN raw : raw[x].escaped}} |-> ValuesOf(raw, key)]

\* url.Values.Set
\* send gone wrong: the subject is added to the values the URL has
QuerySet_Add(q, key, value) ==
    [x \in DOMAIN q \cup {key} |->
        IF x # key THEN q[x]
        ELSE (IF key \in DOMAIN q THEN q[key] ELSE <<>>) \o <<value>>]

QuerySet(q, key, value) ==
    [x \in DOMAIN q \cup {key} |-> IF x = key THEN <<value>> ELSE q[x]]

\* url.Parse gone wrong: the error is dropped and the URL used as it is
urlParse_NoError(u) ==
    [err |-> FALSE, host |-> "", path |-> u, query |-> NoQuery]

\* url.Parse and URL.Query, on the URLs of the model: the error, and the parts
\* send and the HTTP client use
urlParse(u) ==
    CASE u = MalformedURL -> [err |-> TRUE, host |-> "", path |-> "", query |-> NoQuery]
      [] u = ExternalURL -> [err |-> FALSE, host |-> "h", path |-> "/x", query |-> NoQuery]
      [] u = OtherURL -> [err |-> FALSE, host |-> "d", path |-> "/y", query |-> NoQuery]
      [] u = QueryURL ->
            [err |-> FALSE, host |-> "h", path |-> "/x", query |-> URLQuery(RawQuery(u))]
      [] u = BadQueryURL ->
            [err |-> FALSE, host |-> "h", path |-> "/x", query |-> URLQuery(RawQuery(u))]
      [] u = TestWebhookURL(DefaultAddr) ->
            [err |-> FALSE, host |-> "127.0.0.1" \o DefaultAddr, path |-> "/webhook",
             query |-> NoQuery]
      [] OTHER -> [err |-> FALSE, host |-> "", path |-> u, query |-> NoQuery]

\* Config.init: the default webhook gets the server's key when it is the
\* test webhook
\* Config.init gone wrong: the default webhook keeps the key it was given
ConfigInit_KeepsKey(c) == c

ConfigInit(c) ==
    IF c.Sub.Webhook.URL = TestWebhookURL(c.Server.Addr)
    THEN [c EXCEPT !.Sub.Webhook.Key = c.Server.Key]
    ELSE c

\* NewSubscriber, lines 68-72: the webhook of a consumer
\* NewSubscriber gone wrong: only the URL falls back, the key stays
ResolveWebhook_UrlOnly(consumerWebhook, defaultWebhook) ==
    IF consumerWebhook.URL = "" /\ defaultWebhook.URL # ""
    THEN [consumerWebhook EXCEPT !.URL = defaultWebhook.URL]
    ELSE consumerWebhook

ResolveWebhook(consumerWebhook, defaultWebhook) ==
    IF consumerWebhook.URL = "" /\ defaultWebhook.URL # ""
    THEN defaultWebhook
    ELSE consumerWebhook

\* The configurations a run starts from
ServerKeys == {"", "secret"}
DefaultWebhooks ==
    {WebhookConfig(TestWebhookURL(DefaultAddr), ""), WebhookConfig(OtherURL, "dk"),
     WebhookConfig("", "dk")}
ConsumerWebhooks ==
    {WebhookConfig("", ""), WebhookConfig(ExternalURL, "k"), WebhookConfig("", "k"),
     WebhookConfig(MalformedURL, "")}

Config(key, streams, webhook) ==
    [Server |-> [Addr |-> DefaultAddr, Key |-> key],
     Sub |-> [Streams |-> streams, Webhook |-> webhook]]

OneStream(w1, w2) ==
    <<StreamConfig("ORDERS", <<ConsumerConfig("c1", w1), ConsumerConfig("c2", w2)>>)>>

\* the configurations of the ingress specification
Configs ==
    {Config(key, OneStream(WebhookConfig("", ""), w2), dw) :
        key \in ServerKeys, w2 \in {WebhookConfig(ExternalURL, "k")},
        dw \in {WebhookConfig(TestWebhookURL(DefaultAddr), "")}}

\* the configurations of the whole-program specification: a token is set
MainConfigs == {c \in Configs : c.Server.Key # ""}

\* the configurations of the liveness specification: one consumer, on the
\* default webhook (the test webhook), on its own, or on a malformed URL
LiveConfigs ==
    {Config("secret", <<StreamConfig("ORDERS", <<ConsumerConfig("c1", w)>>)>>,
            WebhookConfig(TestWebhookURL(DefaultAddr), "")) :
        w \in {WebhookConfig("", ""), WebhookConfig(ExternalURL, "k"),
               WebhookConfig(MalformedURL, "")}}

\* the configurations of the specification that starts with a message in the
\* log: one consumer, with a webhook and a key of its own or on the default
\* webhook, whose URL has a query and which has no key, or on a webhook whose
\* URL has a query with a pair that cannot be unescaped
BacklogConfigs ==
    {Config("secret", <<StreamConfig("ORDERS", <<ConsumerConfig("c1", w)>>)>>,
            WebhookConfig(QueryURL, "")) :
        w \in {WebhookConfig(ExternalURL, "k"), WebhookConfig("", ""),
               WebhookConfig(BadQueryURL, "")}}

\* the configurations of the test-webhook specification: one consumer, on the
\* default webhook (the test webhook) or on the test webhook by its own URL,
\* with no key or with the server's
SinkConfigs ==
    {Config(key, <<StreamConfig("ORDERS", <<ConsumerConfig("c1", w)>>)>>,
            WebhookConfig(TestWebhookURL(DefaultAddr), "")) :
        key \in ServerKeys,
        w \in {WebhookConfig("", ""), WebhookConfig(TestWebhookURL(DefaultAddr), ""),
               WebhookConfig(TestWebhookURL(DefaultAddr), "secret")}}

\* the configurations of the liveness specification of the default webhook
DefaultConfigs == {c \in SinkConfigs : c.Sub.Streams[1].Consumers[1].Webhook.Key = ""}

\* the configurations of the Subscriber specification: two consumers
SubscriberConfigs ==
    {Config("secret", OneStream(WebhookConfig(ExternalURL, "k"), WebhookConfig("", "")),
            WebhookConfig(OtherURL, "dk"))}

\* two streams of one consumer each
TwoStreamConfigs ==
    {Config("", <<StreamConfig("ORDERS", <<ConsumerConfig("c1", w1)>>),
                  StreamConfig("EVENTS", <<>>),
                  StreamConfig("AUDIT", <<ConsumerConfig("c1", w2)>>)>>, dw) :
        w1 \in ConsumerWebhooks, w2 \in ConsumerWebhooks, dw \in DefaultWebhooks}

\* a stream and a durable consumer named twice
RepeatConfigs ==
    {Config("", <<StreamConfig("ORDERS", <<ConsumerConfig("c1", w)>>),
                  StreamConfig("ORDERS", <<ConsumerConfig("c1", w), ConsumerConfig("c2", w)>>)>>,
            WebhookConfig(OtherURL, "dk")) :
        w \in {WebhookConfig("", "")}}

\* every combination, for the start-up specification
AllConfigs ==
    {Config(key, OneStream(w1, w2), dw) :
        key \in ServerKeys, w1 \in ConsumerWebhooks, w2 \in ConsumerWebhooks,
        dw \in DefaultWebhooks \cup {WebhookConfig(TestWebhookURL(DefaultAddr), "k")}}

----------------------------------------------------------------------------
(* The log (JetStream), as the program sees it *)

EmptyMap == [k \in {} |-> <<>>]

\* a stream created with only a Name captures the subject equal to its name
CreatedStream(name) == {name}
\* the configuration getOrCreateConsumer creates a consumer with
CreatedConsumer ==
    [AckPolicy |-> "explicit", DeliverPolicy |-> "all", MaxDeliver |-> UnlimitedDeliver]

\* what the log may hold before the program starts
InitialStreams == {EmptyMap, [n \in {"ORDERS"} |-> {"ORDERS", "ORDERS.new"}]}
InitialConsumers ==
    {EmptyMap,
     [d \in {<<"ORDERS", "c1">>} |->
        [AckPolicy |-> "explicit", DeliverPolicy |-> "all", MaxDeliver |-> 1]]}
\* a consumer exists only on a stream that exists
InitialLogs ==
    {l \in [streams : InitialStreams, consumers : InitialConsumers] :
        \A d \in DOMAIN l.consumers : d[1] \in DOMAIN l.streams}

StreamOf(subject) ==
    {n \in DOMAIN logStreams : subject \in logStreams[n]}

Extend(f, k, v) == [x \in DOMAIN f \cup {k} |-> IF x = k THEN v ELSE f[x]]


----------------------------------------------------------------------------
(* Start-up: main, NewSubscriber, Subscribe *)

Count(f, k) == IF k \in DOMAIN f THEN f[k] ELSE 0

\* the program before main runs
InitProgram ==
    /\ pc = "init"
    /\ acked = {}
    /\ numDelivered = EmptyMap
    /\ nsPos = [s |-> 1, c |-> 0]
    /\ nsConsumers = <<>>
    /\ consumers = <<>>
    /\ contexts = <<>>
    /\ live = {}
    /\ inflight = EmptyMap
    /\ posts = EmptyMap
    /\ ackCalls = EmptyMap
    /\ lastSend = EmptyMap
    /\ reqCount = 0
    /\ lastReq = <<>>
    /\ lastResp = NoResponse
    /\ lastPublish = NoPublish
    /\ subPos = [calls |-> 0, i |-> 0]
    /\ provisioning = NoProvisioning

\* everything but the configuration: the log holds no message
InitRest ==
    /\ \E l \in InitialLogs :
          /\ logStreams = l.streams
          /\ logConsumers = l.consumers
    /\ stored = <<>>
    /\ InitProgram

\* the log holds a message when the program starts: stream ORDERS exists
\* and another client has published to it
BacklogHeaders ==
    [k \in {KeyLowerNats, KeyNatsMsgId, KeyLowerAuthorization, KeyContentType} |->
        IF k = KeyLowerNats THEN <<"v1">>
        ELSE IF k = KeyNatsMsgId THEN <<"v2", "v3">>
        ELSE IF k = KeyLowerAuthorization THEN <<"X">>
        ELSE <<"text/plain">>]
Backlog == <<Message("ORDERS.new", "P0", BacklogHeaders)>>
PlainBacklog == <<Message("ORDERS.new", "P0", EmptyMap)>>

InitBacklogOf(configs, backlog) ==
    /\ cfg \in configs
    /\ logStreams = [n \in {"ORDERS"} |-> {"ORDERS", "ORDERS.new"}]
    /\ logConsumers = EmptyMap
    /\ stored = backlog
    /\ InitProgram

InitBacklog == InitBacklogOf(BacklogConfigs, Backlog)
InitSubscriber == InitBacklogOf(SubscriberConfigs, PlainBacklog)

Init ==
    /\ cfg \in MainConfigs
    /\ InitRest

\* main: cfg.init()
MainConfigInit ==
    /\ pc = "init"
    /\ cfg' = ConfigInit(cfg)
    /\ pc' = "newSubscriber"
    /\ UNCHANGED <<logStreams, logConsumers, stored, acked, numDelivered, nsPos,
                   nsConsumers, consumers, contexts, subPos, live, inflight, posts,
                   ackCalls, lastSend, reqCount, lastReq, lastResp, lastPublish,
                   provisioning>>

\* the position after (s, c) in NewSubscriber's nested loops
NextPos(s, c) ==
    IF c < Len(cfg.Sub.Streams[s].Consumers)
    THEN [s |-> s, c |-> c + 1]
    ELSE [s |-> s + 1, c |-> 0]

\* getOrCreateStream: the log after the call, whether it returned an error, and
\* whether it called js.CreateStream. lookupErr: js.Stream failed though the
\* stream may exist; createErr: js.CreateStream failed. The log refuses to
\* create over an existing name with another configuration, and answers a
\* create with the existing configuration by the existing stream.
getOrCreateStream(name, lookupErr, createErr) ==
    IF name \in DOMAIN logStreams /\ ~lookupErr
    THEN [err |-> FALSE, streams |-> logStreams, createCalled |-> FALSE]
    ELSE IF createErr \/ (name \in DOMAIN logStreams /\ logStreams[name] # CreatedStream(name))
    THEN [err |-> TRUE, streams |-> logStreams, createCalled |-> TRUE]
    ELSE [err |-> FALSE, streams |-> Extend(logStreams, name, CreatedStream(name)),
          createCalled |-> TRUE]

\* getOrCreateConsumer, likewise
getOrCreateConsumer(d, lookupErr, createErr) ==
    IF d \in DOMAIN logConsumers /\ ~lookupErr
    THEN [err |-> FALSE, consumers |-> logConsumers, createCalled |-> FALSE]
    ELSE IF createErr \/ (d \in DOMAIN logConsumers /\ logConsumers[d] # CreatedConsumer)
    THEN [err |-> TRUE, consumers |-> logConsumers, createCalled |-> TRUE]
    ELSE [err |-> FALSE, consumers |-> Extend(logConsumers, d, CreatedConsumer),
          createCalled |-> TRUE]

\* the history of NewSubscriber's provisioning calls: the last call (what it
\* was for, whether the name existed, whether the lookup failed though it
\* existed, whether create was called and failed, the error returned) and
\* the number of create calls per name
Provisioned(kind, name, existed, lookupErr, createErr, got) ==
    [last |-> [kind |-> kind, name |-> name, existed |-> existed,
               lookupErr |-> existed /\ lookupErr,
               createCalled |-> got.createCalled,
               createErr |-> got.createCalled /\ createErr,
               err |-> got.err],
     createCalls |->
        IF got.createCalled
        THEN Extend(provisioning.createCalls, <<kind, name>>,
                    Bump(Count(provisioning.createCalls, <<kind, name>>)))
        ELSE provisioning.createCalls]

\* NewSubscriber gone wrong: a stream that cannot be provisioned is skipped
NewSubscriberStream_Continue ==
    /\ pc = "newSubscriber"
    /\ nsPos.s <= Len(cfg.Sub.Streams)
    /\ nsPos.c = 0
    /\ \E lookupErr \in BOOLEAN, createErr \in BOOLEAN :
        LET name == cfg.Sub.Streams[nsPos.s].Name
            got == getOrCreateStream(name, lookupErr, createErr)
        IN  /\ logStreams' = got.streams
            /\ provisioning' = Provisioned("stream", name, name \in DOMAIN logStreams,
                                           lookupErr, createErr, got)
            /\ pc' = pc
            /\ nsPos' = IF got.err THEN [s |-> nsPos.s + 1, c |-> 0]
                                   ELSE NextPos(nsPos.s, 0)
    /\ UNCHANGED <<cfg, logConsumers, stored, acked, numDelivered, nsConsumers,
                   consumers, contexts, subPos, live, inflight, posts, ackCalls,
                   lastSend, reqCount, lastReq, lastResp, lastPublish>>

\* NewSubscriber, lines 57-61: one iteration of the outer loop up to its
\* inner loop
NewSubscriberStream ==
    /\ pc = "newSubscriber"
    /\ nsPos.s <= Len(cfg.Sub.Streams)
    /\ nsPos.c = 0
    /\ \E lookupErr \in BOOLEAN, createErr \in BOOLEAN :
        LET name == cfg.Sub.Streams[nsPos.s].Name
            got == getOrCreateStream(name, lookupErr, createErr)
        IN  /\ logStreams' = got.streams
            /\ provisioning' = Provisioned("stream", name, name \in DOMAIN logStreams,
                                           lookupErr, createErr, got)
            /\ IF got.err
               THEN /\ pc' = "exit"
                    /\ nsPos' = nsPos
               ELSE /\ pc' = pc
                    /\ nsPos' = NextPos(nsPos.s, 0)
    /\ UNCHANGED <<cfg, logConsumers, stored, acked, numDelivered, nsConsumers,
                   consumers, contexts, subPos, live, inflight, posts, ackCalls,
                   lastSend, reqCount, lastReq, lastResp, lastPublish>>

\* NewSubscriber, lines 63-81: one iteration of the inner loop
NewSubscriberConsumer ==
    /\ pc = "newSubscriber"
    /\ nsPos.s <= Len(cfg.Sub.Streams)
    /\ nsPos.c > 0
    /\ \E lookupErr \in BOOLEAN, createErr \in BOOLEAN :
        LET streamCfg == cfg.Sub.Streams[nsPos.s]
            consumerCfg == streamCfg.Consumers[nsPos.c]
            d == <<streamCfg.Name, consumerCfg.DurableName>>
            got == getOrCreateConsumer(d, lookupErr, createErr)
        IN  /\ logConsumers' = got.consumers
            /\ provisioning' = Provisioned("consumer", d, d \in DOMAIN logConsumers,
                                           lookupErr, createErr, got)
            /\ IF got.err
               THEN /\ pc' = "exit"
                    /\ UNCHANGED <<nsPos, nsConsumers>>
               ELSE /\ pc' = pc
                    /\ nsConsumers' = Append(nsConsumers,
                          [consumer |-> d,
                           webhook |-> ResolveWebhook(consumerCfg.Webhook, cfg.Sub.Webhook)])
                    /\ nsPos' = NextPos(nsPos.s, nsPos.c)
    /\ UNCHANGED <<cfg, logStreams, stored, acked, numDelivered, consumers, contexts,
                   subPos, live, inflight, posts, ackCalls, lastSend, reqCount,
                   lastReq, lastResp, lastPublish>>

\* NewSubscriber, lines 84-90: the Subscriber is returned
NewSubscriberReturn ==
    /\ pc = "newSubscriber"
    /\ nsPos.s > Len(cfg.Sub.Streams)
    /\ consumers' = nsConsumers
    /\ lastSend' = [k \in 1..Len(nsConsumers) |-> NotSent]
    /\ provisioning' = NoProvisioning
    /\ pc' = "ready"
    /\ UNCHANGED <<cfg, logStreams, logConsumers, stored, acked, numDelivered, nsPos,
                   nsConsumers, contexts, subPos, live, inflight, posts, ackCalls,
                   reqCount, lastReq, lastResp, lastPublish>>

\* Subscriber.Subscribe is called, by a caller that is at one of `from`
SubscribeCall(from) ==
    /\ pc \in from
    /\ subPos.calls < MaxSubscribeCalls
    /\ subPos' = [calls |-> subPos.calls + 1, i |-> 0]
    /\ pc' = "subscribe"
    /\ UNCHANGED <<cfg, logStreams, logConsumers, stored, acked, numDelivered, nsPos,
                   nsConsumers, consumers, contexts, live, inflight, posts, ackCalls,
                   lastSend, reqCount, lastReq, lastResp, lastPublish, provisioning>>

\* main: sub.Subscribe()
MainSubscribe == SubscribeCall({"ready"})

\* Subscribe gone wrong: on a failure the subscriptions it started are stopped
SubscribeStep_RollsBack ==
    /\ pc = "subscribe"
    /\ subPos.i < Len(consumers)
    /\ \E consumeErr \in BOOLEAN :
        IF consumeErr
        THEN /\ pc' = "subscribeFailed"
             /\ live' = live \ ((Len(contexts) - subPos.i + 1)..Len(contexts))
             /\ UNCHANGED <<contexts, inflight, subPos>>
        ELSE /\ contexts' = Append(contexts, subPos.i + 1)
             /\ live' = live \cup {Len(contexts) + 1}
             /\ inflight' = Append(inflight, Idle)
             /\ subPos' = [subPos EXCEPT !.i = subPos.i + 1]
             /\ pc' = pc
    /\ UNCHANGED <<cfg, logStreams, logConsumers, stored, acked, numDelivered, nsPos,
                   nsConsumers, consumers, posts, ackCalls, lastSend,
                   reqCount, lastReq, lastResp, lastPublish, provisioning>>

\* Subscriber.Subscribe: one iteration of its loop; consumeErr is the outcome
\* of consumer.Consume. A ConsumeContext delivers from the moment it exists.
SubscribeStep ==
    /\ pc = "subscribe"
    /\ subPos.i < Len(consumers)
    /\ \E consumeErr \in BOOLEAN :
        IF consumeErr
        THEN /\ pc' = "subscribeFailed"
             /\ UNCHANGED <<contexts, live, inflight, subPos>>
        ELSE /\ contexts' = Append(contexts, subPos.i + 1)
             /\ live' = live \cup {Len(contexts) + 1}
             /\ inflight' = Append(inflight, Idle)
             /\ subPos' = [subPos EXCEPT !.i = subPos.i + 1]
             /\ pc' = pc
    /\ UNCHANGED <<cfg, logStreams, logConsumers, stored, acked, numDelivered, nsPos,
                   nsConsumers, consumers, posts, ackCalls, lastSend,
                   reqCount, lastReq, lastResp, lastPublish, provisioning>>

\* Subscribe gone wrong: it returns nil after the first consumer
SubscribeReturn_Early ==
    /\ pc = "subscribe"
    /\ subPos.i >= 1
    /\ pc' = "serve"
    /\ UNCHANGED <<cfg, logStreams, logConsumers, stored, acked, numDelivered, nsPos,
                   nsConsumers, consumers, contexts, subPos, live, inflight, posts,
                   ackCalls, lastSend, reqCount, lastReq, lastResp, lastPublish,
                   provisioning>>

\* Subscribe returns nil; main goes on to Server.Serve
SubscribeReturn ==
    /\ pc = "subscribe"
    /\ subPos.i = Len(consumers)
    /\ pc' = "serve"
    /\ UNCHANGED <<cfg, logStreams, logConsumers, stored, acked, numDelivered, nsPos,
                   nsConsumers, consumers, contexts, subPos, live, inflight, posts,
                   ackCalls, lastSend, reqCount, lastReq, lastResp, lastPublish,
                   provisioning>>

\* Stop gone wrong: the loop ends after the first ConsumeContext
StopContexts_FirstOnly ==
    live' = live \ {1}

\* Subscriber.Stop: cctx.Stop() on every recorded ConsumeContext; a send that
\* is waiting for its webhook runs on
StopContexts ==
    live' = live \ (1..Len(contexts))

\* http.ListenAndServe returns; the deferred sub.Stop() runs
Stop ==
    /\ pc = "serve"
    /\ StopContexts
    /\ pc' = "stopped"
    /\ UNCHANGED <<cfg, logStreams, logConsumers, stored, acked, numDelivered, nsPos,
                   nsConsumers, consumers, contexts, subPos, inflight, posts,
                   ackCalls, lastSend, reqCount, lastReq, lastResp, lastPublish,
                   provisioning>>


\* the states of a caller of the Subscriber between two calls
Returned == {"ready", "subscribeFailed", "serve", "stopped"}

\* a caller calls Subscribe, whatever it has called before
CallSubscribe == SubscribeCall(Returned)

\* Stop gone wrong: it cancels the sends that are waiting for their webhooks
CallStop_Cancels ==
    /\ pc \in Returned
    /\ StopContexts
    /\ pc' = "stopped"
    /\ inflight' = [j \in DOMAIN inflight |-> Idle]
    /\ UNCHANGED <<cfg, logStreams, logConsumers, stored, acked, numDelivered, nsPos,
                   nsConsumers, consumers, contexts, subPos, posts, ackCalls,
                   lastSend, reqCount, lastReq, lastResp, lastPublish, provisioning>>

\* a caller calls Stop, whatever it has called before
CallStop ==
    /\ pc \in Returned
    /\ StopContexts
    /\ pc' = "stopped"
    /\ UNCHANGED <<cfg, logStreams, logConsumers, stored, acked, numDelivered, nsPos,
                   nsConsumers, consumers, contexts, subPos, inflight, posts, ackCalls,
                   lastSend, reqCount, lastReq, lastResp, lastPublish, provisioning>>

\* main returns after a failed Subscribe, or after the deferred Stop: the
\* connection is closed and the process, with its goroutines, is gone
MainReturn ==
    /\ pc \in {"subscribeFailed", "stopped"}
    /\ pc' = "exit"
    /\ live' = {}
    /\ inflight' = [k \in DOMAIN inflight |-> Idle]
    /\ UNCHANGED <<cfg, logStreams, logConsumers, stored, acked, numDelivered, nsPos,
                   nsConsumers, consumers, contexts, subPos, posts, ackCalls,
                   lastSend, reqCount, lastReq, lastResp, lastPublish, provisioning>>

----------------------------------------------------------------------------
(* Ingress: the HTTP server handles one request *)

Header(auth, rest) ==
    IF auth = "" THEN rest ELSE Extend(rest, KeyAuthorization, <<auth>>)

Query(subjects) ==
    IF subjects = <<>> THEN EmptyMap ELSE [k \in {"subject"} |-> subjects]

Request(route, subjects, auth, rest, bodyErr, body) ==
    [route |-> route, query |-> Query(subjects), header |-> Header(auth, rest),
     bodyErr |-> bodyErr, body |-> body]

\* request headers besides Authorization
PlainHeaders ==
    [k \in {KeyContentType} |-> <<"text/plain">>]
MixedHeaders ==
    [k \in {KeyNatsMsgId, KeyNatsExpected, KeyContentType, KeyNatsNoDash, KeyNatsShort,
            KeyLowerNats, KeyXNats, KeyNatsBare} |->
        IF k = KeyNatsExpected THEN <<"a", "b">> ELSE <<"v">>]

Authorizations == {"", "Bearer secret", "Bearer wrong", "secret"}
SubjectParams == {<<>>, <<"">>, <<"ORDERS">>, <<"X">>, <<"", "ORDERS">>}

\* the requests of the ingress specification
AllRequests ==
    {Request(route, subjects, auth, rest, bodyErr, "P") :
        route \in {"/pub", "/webhook"}, subjects \in SubjectParams,
        auth \in Authorizations, rest \in {EmptyMap, PlainHeaders, MixedHeaders},
        bodyErr \in BOOLEAN}

\* the requests of the whole-program specification
FewRequests ==
    {Request("/pub", <<"ORDERS">>, auth, MixedHeaders, FALSE, "P") :
        auth \in {"", "Bearer secret"}}

\* the requests of the test-webhook specification
SinkRequests ==
    {Request("/pub", <<"ORDERS">>, "Bearer secret", MixedHeaders, FALSE, "P")}
        \cup {Request("/webhook", subjects, auth, PlainHeaders, bodyErr, "P") :
                subjects \in {<<>>, <<"ORDERS">>}, auth \in {"", "Bearer secret"},
                bodyErr \in BOOLEAN}

\* the messages the log holds on a subject; its streams hold MaxStored per
\* subject and reject a publish beyond that
StoredOn(subject) == Cardinality({i \in 1..Len(stored) : stored[i].Subject = subject})

HandleRequest(r) ==
    /\ pc = "serve"
    /\ reqCount < MaxRequests
    /\ \E logFault \in BOOLEAN :
        LET accepts == /\ ~logFault
                       /\ StreamOf(Get(r.query, "subject")) # {}
                       /\ StoredOn(Get(r.query, "subject")) < MaxStored
            out == ServeHTTP(cfg.Server.Key, r, accepts)
        IN  /\ lastResp' = out.resp
            /\ lastPublish' = [calls |-> out.published,
                                accepted |-> accepts /\ out.published # <<>>]
            /\ stored' = IF accepts THEN stored \o out.published ELSE stored
    /\ lastReq' = r
    /\ reqCount' = reqCount + 1
    /\ UNCHANGED <<pc, cfg, logStreams, logConsumers, acked, numDelivered, nsPos,
                   nsConsumers, consumers, contexts, subPos, live, inflight, posts,
                   ackCalls, lastSend, provisioning>>

----------------------------------------------------------------------------
(* Egress: Consumer.send *)

\* a webhook's answer to c.httpClient.Do and io.ReadAll: a transport error
\* (err), or a status and whether the body could be read
Reply(err, status, bodyErr) == [err |-> err, status |-> status, bodyErr |-> bodyErr]
TransportError == Reply(TRUE, 0, FALSE)
WebhookReplies ==
    {TransportError, Reply(FALSE, 200, FALSE), Reply(FALSE, 200, TRUE),
     Reply(FALSE, 503, FALSE), Reply(FALSE, 204, FALSE)}

\* textproto.CanonicalMIMEHeaderKey, on the letters of the model's keys: the
\* first letter and every letter after a "-" in upper case, the others in
\* lower case
Lowers == <<"a", "c", "d", "e", "h", "i", "n", "s", "t", "u", "x">>
Uppers == <<"A", "C", "D", "E", "H", "I", "N", "S", "T", "U", "X">>
ToUpper(c) ==
    IF \E n \in DOMAIN Lowers : Lowers[n] = c
    THEN Uppers[CHOOSE n \in DOMAIN Lowers : Lowers[n] = c]
    ELSE c
ToLower(c) ==
    IF \E n \in DOMAIN Uppers : Uppers[n] = c
    THEN Lowers[CHOOSE n \in DOMAIN Uppers : Uppers[n] = c]
    ELSE c
CanonicalMIMEHeaderKey(key) ==
    [n \in 1..Len(key) |->
        IF n = 1 \/ key[n - 1] = "-" THEN ToUpper(key[n]) ELSE ToLower(key[n])]

\* the header keys of the model, and their canonical forms
HeaderKeys ==
    {KeyAuthorization, KeyContentType, KeyNatsMsgId, KeyNatsExpected, KeyNatsBare,
     KeyNatsNoDash, KeyNatsShort, KeyLowerNats, KeyXNats, KeyLowerAuthorization}
Canonical == [key \in HeaderKeys |-> CanonicalMIMEHeaderKey(key)]

\* http.Header.Set and http.Header.Add (of all the values of one key)
HeaderSet(h, key, value) == Extend(h, Canonical[key], <<value>>)

\* send gone wrong: the message's headers are set, not added
HeaderAdd_Replaces(h, key, values) ==
    IF values = <<>> THEN h ELSE Extend(h, Canonical[key], values)

HeaderAdd(h, key, values) ==
    LET c == Canonical[key]
    IN  IF values = <<>> THEN h
        ELSE Extend(h, c, (IF c \in DOMAIN h THEN h[c] ELSE <<>>) \o values)

RECURSIVE AddHeaders(_, _, _)
\* send, lines 153-157: the loops over m.Header, its keys taken in `order`
AddHeaders(h, header, order) ==
    IF order = <<>> THEN h
    ELSE AddHeaders(HeaderAdd(h, Head(order), header[Head(order)]), header, Tail(order))

RECURSIVE Orders(_)
\* the orders a range over a map with these keys can take: any
Orders(keys) ==
    IF keys = {} THEN {<<>>}
    ELSE UNION {{<<key>> \o rest : rest \in Orders(keys \ {key})} : key \in keys}

\* send, lines 137-157: the request. order is the order in which the range
\* over m.Header visits its keys.
sendRequest(webhook, m, order) ==
    LET u == urlParse(webhook.URL)
        typed == HeaderSet(EmptyMap, KeyContentType, "application/json")
        set == IF webhook.Key # ""
               THEN HeaderSet(typed, KeyAuthorization, "Bearer " \o webhook.Key)
               ELSE typed
    IN  [method |-> "POST", host |-> u.host, route |-> u.path,
         query |-> QuerySet(u.query, "subject", m.Subject),
         header |-> AddHeaders(set, m.Header, order),
         bodyErr |-> FALSE, body |-> m.Data]

\* send, lines 159-178: whether msg.Ack() is reached
\* send gone wrong: any 2xx status is acknowledged
sendAcks_Any2xx(reply) ==
    /\ ~reply.err
    /\ ~reply.bodyErr
    /\ reply.status >= 200 /\ reply.status < 300

\* send gone wrong: msg.Ack() is never reached
sendAcks_Never(reply) == FALSE

\* send gone wrong: the status is looked at before the body is read
sendAcks_Claimed(reply) ==
    /\ ~reply.err
    /\ reply.status = StatusOK

sendAcks(reply) ==
    /\ ~reply.err
    /\ ~reply.bodyErr
    /\ reply.status = StatusOK

\* the answers a request of send can get
RepliesTo(req) ==
    IF req.host = "" THEN {TransportError}
    ELSE IF req.host = "127.0.0.1" \o cfg.Server.Addr
    THEN IF pc = "serve"
         THEN {TransportError,
               Reply(FALSE, ServeHTTP(cfg.Server.Key, req, FALSE).resp.status, FALSE)}
         ELSE {TransportError}
    ELSE WebhookReplies

\* the consumers that have a delivering ConsumeContext
LiveConsumers == {contexts[j] : j \in live}

\* Consume gone wrong: one dispatcher runs the callbacks of all the
\* ConsumeContexts, one at a time
Deliverable_Serial(j, i) ==
    LET d == consumers[contexts[j]].consumer
    IN  /\ j \in live
        /\ \A b \in DOMAIN inflight : inflight[b].msg = 0
        /\ i \in 1..Len(stored)
        /\ stored[i].Subject \in logStreams[d[1]]
        /\ <<d, i>> \notin acked
        /\ \/ logConsumers[d].MaxDeliver = UnlimitedDeliver
           \/ Count(numDelivered, <<d, i>>) < logConsumers[d].MaxDeliver
        /\ \A h \in 1..(i - 1) :
              stored[h].Subject \in logStreams[d[1]] => Count(numDelivered, <<d, h>>) > 0

\* Consume gone wrong: the callback hands the message to a goroutine and
\* returns, so the next delivery does not wait for send
Deliverable_Async(j, i) ==
    LET d == consumers[contexts[j]].consumer
    IN  /\ j \in live
        /\ i \in 1..Len(stored)
        /\ stored[i].Subject \in logStreams[d[1]]
        /\ <<d, i>> \notin acked
        /\ \/ logConsumers[d].MaxDeliver = UnlimitedDeliver
           \/ Count(numDelivered, <<d, i>>) < logConsumers[d].MaxDeliver
        /\ \A h \in 1..(i - 1) :
              stored[h].Subject \in logStreams[d[1]] => Count(numDelivered, <<d, h>>) > 0

\* the log may deliver stored message i on ConsumeContext j: the context is
\* delivering, its callback has returned, the message is in the consumer's
\* stream, unacknowledged and still to be (re)delivered, and what the stream
\* stored before it has been delivered
Deliverable(j, i) ==
    LET d == consumers[contexts[j]].consumer
    IN  /\ j \in live
        /\ inflight[j].msg = 0
        /\ i \in 1..Len(stored)
        /\ stored[i].Subject \in logStreams[d[1]]
        /\ <<d, i>> \notin acked
        /\ \/ logConsumers[d].MaxDeliver = UnlimitedDeliver
           \/ Count(numDelivered, <<d, i>>) < logConsumers[d].MaxDeliver
        /\ \A h \in 1..(i - 1) :
              stored[h].Subject \in logStreams[d[1]] => Count(numDelivered, <<d, h>>) > 0

\* the log delivers message i on ConsumeContext j: send runs up to httpClient.Do
SendStart(j, i) ==
    /\ j \in DOMAIN contexts
    /\ Deliverable(j, i)
    /\ LET k == contexts[j]
           d == consumers[k].consumer
           m == Message(stored[i].Subject, stored[i].Data, stored[i].Header)
       IN  /\ numDelivered' = Extend(numDelivered, <<d, i>>, Bump(Count(numDelivered, <<d, i>>)))
           /\ IF urlParse(consumers[k].webhook.URL).err
              THEN /\ lastSend' = [lastSend EXCEPT ![k] =
                          [msg |-> i, posted |-> FALSE, acks |-> 0,
                           reply |-> TransportError]]
                   /\ UNCHANGED <<inflight, posts>>
              ELSE /\ \E req \in {sendRequest(consumers[k].webhook, m, order) :
                                      order \in Orders(DOMAIN m.Header)} :
                        inflight' = [inflight EXCEPT ![j] = [msg |-> i, req |-> req]]
                   /\ posts' = Extend(posts, <<k, i>>, Bump(Count(posts, <<k, i>>)))
                   /\ UNCHANGED lastSend
    /\ UNCHANGED <<pc, cfg, logStreams, logConsumers, stored, acked, nsPos,
                   nsConsumers, consumers, contexts, subPos, live, ackCalls,
                   reqCount, lastReq, lastResp, lastPublish, provisioning>>

\* send gone wrong: the acknowledgment settles the message for every durable
\* consumer of the stream
SendFinishWith_AcksStream(j, reply) ==
    /\ j \in DOMAIN inflight
    /\ inflight[j].msg # 0
    /\ reply \in RepliesTo(inflight[j].req)
    /\ LET i == inflight[j].msg
           k == contexts[j]
           d == consumers[k].consumer
       IN  /\ lastSend' = [lastSend EXCEPT ![k] =
                   [msg |-> i, posted |-> TRUE,
                    acks |-> IF sendAcks(reply) THEN 1 ELSE 0, reply |-> reply]]
           /\ IF sendAcks(reply)
              THEN /\ acked' = acked \cup {<<o, i>> : o \in {x \in DOMAIN logConsumers : x[1] = d[1]}}
                   /\ ackCalls' = Extend(ackCalls, <<k, i>>, Bump(Count(ackCalls, <<k, i>>)))
              ELSE UNCHANGED <<acked, ackCalls>>
    /\ inflight' = [inflight EXCEPT ![j] = Idle]
    /\ UNCHANGED posts
    /\ UNCHANGED <<pc, cfg, logStreams, logConsumers, stored, numDelivered, nsPos,
                   nsConsumers, consumers, contexts, subPos, live,
                   reqCount, lastReq, lastResp, lastPublish, provisioning>>

\* send gone wrong: after an answer it does not acknowledge on, it POSTs again
SendFinishWith_Retry(j, reply) ==
    /\ j \in DOMAIN inflight
    /\ inflight[j].msg # 0
    /\ reply \in RepliesTo(inflight[j].req)
    /\ LET i == inflight[j].msg
           k == contexts[j]
           d == consumers[k].consumer
       IN  IF sendAcks(reply)
           THEN /\ lastSend' = [lastSend EXCEPT ![k] =
                       [msg |-> i, posted |-> TRUE, acks |-> 1, reply |-> reply]]
                /\ acked' = acked \cup {<<d, i>>}
                /\ ackCalls' = Extend(ackCalls, <<k, i>>, Bump(Count(ackCalls, <<k, i>>)))
                /\ inflight' = [inflight EXCEPT ![j] = Idle]
                /\ UNCHANGED posts
           ELSE /\ posts' = Extend(posts, <<k, i>>, Bump(Count(posts, <<k, i>>)))
                /\ UNCHANGED <<lastSend, acked, ackCalls, inflight>>
    /\ UNCHANGED <<pc, cfg, logStreams, logConsumers, stored, numDelivered, nsPos,
                   nsConsumers, consumers, contexts, subPos, live,
                   reqCount, lastReq, lastResp, lastPublish, provisioning>>

\* the webhook answers (or the client gives up) with reply: send runs to its end
SendFinishWith(j, reply) ==
    /\ j \in DOMAIN inflight
    /\ inflight[j].msg # 0
    /\ reply \in RepliesTo(inflight[j].req)
    /\ LET i == inflight[j].msg
           k == contexts[j]
           d == consumers[k].consumer
       IN  /\ lastSend' = [lastSend EXCEPT ![k] =
                   [msg |-> i, posted |-> TRUE,
                    acks |-> IF sendAcks(reply) THEN 1 ELSE 0, reply |-> reply]]
           /\ IF sendAcks(reply)
              THEN /\ acked' = acked \cup {<<d, i>>}
                   /\ ackCalls' = Extend(ackCalls, <<k, i>>, Bump(Count(ackCalls, <<k, i>>)))
              ELSE UNCHANGED <<acked, ackCalls>>
    /\ inflight' = [inflight EXCEPT ![j] = Idle]
    /\ UNCHANGED posts
    /\ UNCHANGED <<pc, cfg, logStreams, logConsumers, stored, numDelivered, nsPos,
                   nsConsumers, consumers, contexts, subPos, live,
                   reqCount, lastReq, lastResp, lastPublish, provisioning>>

AllReplies == WebhookReplies \cup {Reply(FALSE, s, FALSE) : s \in {400, 401}}

SendFinish(j) == \E reply \in AllReplies : SendFinishWith(j, reply)

\* the webhook's answer lets send acknowledge
AnswerOK(j) == \E reply \in AllReplies : sendAcks(reply) /\ SendFinishWith(j, reply)

----------------------------------------------------------------------------
(* Specifications *)

Startup ==
    \/ MainConfigInit
    \/ NewSubscriberStream
    \/ NewSubscriberConsumer
    \/ NewSubscriberReturn
    \/ MainSubscribe
    \/ SubscribeStep
    \/ SubscribeReturn

Deliver == \E j \in DOMAIN inflight : \E i \in 1..Len(stored) : SendStart(j, i)
Answer == \E j \in DOMAIN inflight : SendFinish(j)
Serve == \E r \in FewRequests : HandleRequest(r)
ServeAll == \E r \in AllRequests : HandleRequest(r)

Next ==
    \/ Startup
    \/ Serve
    \/ Deliver
    \/ Answer
    \/ Stop
    \/ MainReturn

Spec == Init /\ [][Next]_vars


\* The HTTP server alone, over every request of the model
NextIngress ==
    \/ Startup
    \/ ServeAll
    \/ Stop
    \/ MainReturn

InitIngress ==
    /\ cfg \in Configs
    /\ InitRest

SpecIngress == InitIngress /\ [][NextIngress]_vars

\* Start-up alone, from every configuration of the model
InitStartup ==
    /\ cfg \in AllConfigs \cup TwoStreamConfigs \cup RepeatConfigs
    /\ InitRest

NextStartup ==
    \/ Startup
    \/ MainReturn

SpecStartup == InitStartup /\ [][NextStartup]_vars



\* The Subscriber under any caller: after NewSubscriber, Subscribe and Stop are
\* called in any order, one call at a time, while the log delivers what it
\* held at the start. ("serve" is where a caller is after Subscribe returned
\* nil.)
NextSubscriber ==
    \/ Startup
    \/ CallSubscribe
    \/ CallStop
    \/ Deliver
    \/ Answer

SpecSubscriber == InitSubscriber /\ [][NextSubscriber]_vars

\* The whole program with the test webhook as the target, over requests to
\* both routes
ServeSink == \E r \in SinkRequests : HandleRequest(r)

NextSink ==
    \/ Startup
    \/ ServeSink
    \/ Deliver
    \/ Answer
    \/ Stop
    \/ MainReturn

InitSink ==
    /\ cfg \in SinkConfigs
    /\ InitRest

SpecSink == InitSink /\ [][NextSink]_vars

\* Two durable consumers of one stream, one of which may exist before the
\* program starts, and a message in the log
InitShared ==
    /\ cfg \in SubscriberConfigs
    /\ logStreams = [n \in {"ORDERS"} |-> {"ORDERS", "ORDERS.new"}]
    /\ logConsumers \in InitialConsumers
    /\ stored = PlainBacklog
    /\ InitProgram

NextShared ==
    \/ Startup
    \/ Deliver
    \/ Answer
    \/ Stop
    \/ MainReturn

SpecShared == InitShared /\ [][NextShared]_vars

\* The whole program, started with a message in the log
SpecBacklog == InitBacklog /\ [][Next]_vars

\* The whole program under the scheduling the log and the HTTP client give:
\* the log keeps redelivering what it may redeliver (SendStart), the client's
\* timeout ends every webhook call (SendFinish), and a webhook that can answer
\* 200 to repeated attempts eventually does (AnswerOK).
ConsumerIds == {1}
MessageIds == 1..MaxStored

Fairness ==
    \A k \in ConsumerIds :
        /\ WF_vars(SendFinish(k))
        /\ SF_vars(AnswerOK(k))
        /\ \A i \in MessageIds : SF_vars(SendStart(k, i))

\* the process keeps serving: http.ListenAndServe does not return
NextLive ==
    \/ Startup
    \/ Serve
    \/ Deliver
    \/ Answer
    \/ MainReturn

InitLive ==
    /\ cfg \in LiveConfigs
    /\ InitRest

SpecLive == InitLive /\ [][NextLive]_vars /\ Fairness

\* The program on the test webhook, under the same scheduling
InitDefault ==
    /\ cfg \in DefaultConfigs
    /\ InitRest

SpecDefault == InitDefault /\ [][NextLive]_vars /\ Fairness

----------------------------------------------------------------------------
(* Egress claims, checked under Spec *)

Sent == {k \in DOMAIN lastSend : lastSend[k].msg # 0}

\* a 200 whose body was read
sendOK(reply) == ~reply.err /\ ~reply.bodyErr /\ reply.status = 200

\* C1: a send invocation acknowledges only after a webhook POST of that
\* invocation returned HTTP 200: an invocation that ended in a transport error
\* or any other status made no Ack call, and no message has more Ack calls than
\* POSTs.
C1_NoAckWithout200 ==
    /\ \A k \in Sent :
          lastSend[k].acks > 0 =>
              /\ lastSend[k].posted
              /\ ~lastSend[k].reply.err
              /\ lastSend[k].reply.status = 200
    /\ \A e \in DOMAIN ackCalls : ackCalls[e] <= Count(posts, e)
    /\ \A a \in acked :
          \E k \in DOMAIN consumers :
              consumers[k].consumer = a[1] /\ Count(ackCalls, <<k, a[2]>>) > 0

C1_Witness ==
    \E k \in Sent :
        /\ lastSend[k].posted
        /\ lastSend[k].reply.status \in {503, 204}
        /\ lastSend[k].acks = 0
        /\ <<consumers[k].consumer, lastSend[k].msg>> \notin acked

\* C2, as claimed: every send invocation whose webhook call returned HTTP 200
\* acknowledged the message exactly once.
C2_Claimed ==
    \A k \in Sent :
        (lastSend[k].posted /\ ~lastSend[k].reply.err /\ lastSend[k].reply.status = 200)
            => lastSend[k].acks = 1

\* C2, amended: every send invocation whose webhook call returned HTTP 200 and
\* whose response body was read without error acknowledged the message exactly
\* once; one whose body could not be read made no Ack call.
C2_AckOn200Read ==
    \A k \in Sent :
        (lastSend[k].posted /\ ~lastSend[k].reply.err /\ lastSend[k].reply.status = 200)
            => /\ ~lastSend[k].reply.bodyErr =>
                    /\ lastSend[k].acks = 1
                    /\ <<consumers[k].consumer, lastSend[k].msg>> \in acked
               /\ lastSend[k].reply.bodyErr => lastSend[k].acks = 0

C2_Witness ==
    \E k \in Sent :
        /\ lastSend[k].reply = Reply(FALSE, 200, FALSE)
        /\ lastSend[k].acks = 1
        /\ <<consumers[k].consumer, lastSend[k].msg>> \in acked

\* C4, as claimed: once a delivery's webhook call returned 200, the message has
\* been acknowledged exactly once overall by that consumer.
C4_Claimed ==
    \A k \in Sent :
        (lastSend[k].posted /\ ~lastSend[k].reply.err /\ lastSend[k].reply.status = 200)
            => /\ Count(ackCalls, <<k, lastSend[k].msg>>) = 1
               /\ <<consumers[k].consumer, lastSend[k].msg>> \in acked

C4_AckedOnce ==
    /\ \A e \in DOMAIN ackCalls : ackCalls[e] <= 1
    /\ \A k \in Sent :
          (lastSend[k].posted /\ sendOK(lastSend[k].reply))
              => /\ Count(ackCalls, <<k, lastSend[k].msg>>) = 1
                 /\ <<consumers[k].consumer, lastSend[k].msg>> \in acked

C4_NoPostAfterAck ==
    \A j \in DOMAIN inflight :
        (inflight[j].msg = 0 /\ inflight'[j].msg # 0)
            => <<consumers[contexts[j]].consumer, inflight'[j].msg>> \notin acked

\* C4, amended: after any failed deliveries, once a delivery's webhook call
\* returned 200 and its body was read, the message has been acknowledged
\* exactly once overall by that consumer (no message is ever acknowledged
\* twice), and no webhook POST of it starts after the acknowledgment.
C4_AckedOnceThenQuiet ==
    []C4_AckedOnce /\ [][C4_NoPostAfterAck]_vars

C4_Witness ==
    \E k \in Sent :
        /\ sendOK(lastSend[k].reply)
        /\ Count(posts, <<k, lastSend[k].msg>>) = 2
        /\ Count(ackCalls, <<k, lastSend[k].msg>>) = 1
        /\ <<consumers[k].consumer, lastSend[k].msg>> \in acked

----------------------------------------------------------------------------
(* Egress liveness, checked under SpecLive *)

\* message i is stored in the stream of consumer k, whose subscription is
\* live, and k has not acknowledged it
Pending(k, i) ==
    /\ k \in DOMAIN consumers
    /\ k \in LiveConsumers
    /\ i \in 1..Len(stored)
    /\ stored[i].Subject \in logStreams[consumers[k].consumer[1]]
    /\ <<consumers[k].consumer, i>> \notin acked

\* acknowledged, or the subscription is gone
Settled(k, i) ==
    \/ k \notin LiveConsumers
    \/ k \notin DOMAIN consumers
    \/ <<consumers[k].consumer, i>> \in acked

Posting(k, i) == \E j \in DOMAIN inflight : contexts[j] = k /\ inflight[j].msg = i

\* the webhook of consumer k can answer a POST of message i by a 200 send
\* acknowledges on
CanAck(k, i) ==
    /\ k \in DOMAIN consumers
    /\ i \in 1..Len(stored)
    /\ \E reply \in RepliesTo(sendRequest(consumers[k].webhook, stored[i], <<>>)) :
        sendOK(reply)

\* the log redelivers to consumer k without bound, and its webhook URL parses
Unbounded(k) ==
    /\ k \in DOMAIN consumers
    /\ logConsumers[consumers[k].consumer].MaxDeliver = -1
    /\ ~urlParse(consumers[k].webhook.URL).err

\* C3, as claimed: for every stored message and every subscribed durable
\* consumer, while the message is unacknowledged it is POSTed again and again,
\* and if the webhook can answer 200 it is eventually acknowledged.
C3_Claimed ==
    \A k \in ConsumerIds : \A i \in MessageIds :
        /\ [](Pending(k, i) => <>(Settled(k, i) \/ Posting(k, i)))
        /\ [](Pending(k, i) => <>(Settled(k, i) \/ ~CanAck(k, i)))

\* C3, amended: for every stored message and every subscribed durable
\* consumer that the log redelivers to without bound (MaxDeliver -1, as
\* getOrCreateConsumer creates it; an existing consumer keeps its own limit)
\* and whose webhook URL parses, while the message is unacknowledged and the
\* subscription live it is POSTed again and again, and if the webhook can
\* answer 200 with a readable body it is eventually acknowledged.
C3_AtLeastOnce ==
    \A k \in ConsumerIds : \A i \in MessageIds :
        /\ []((Pending(k, i) /\ Unbounded(k)) => <>(Settled(k, i) \/ Posting(k, i)))
        /\ []((Pending(k, i) /\ Unbounded(k)) => <>(Settled(k, i) \/ ~CanAck(k, i)))

C3_Witness ==
    \E k \in Sent :
        /\ Unbounded(k)
        /\ k \in LiveConsumers
        /\ Count(posts, <<k, lastSend[k].msg>>) = 2
        /\ Count(numDelivered, <<consumers[k].consumer, lastSend[k].msg>>) = 2
        /\ sendOK(lastSend[k].reply)
        /\ <<consumers[k].consumer, lastSend[k].msg>> \in acked


----------------------------------------------------------------------------
(* Ingress claims, checked under SpecIngress *)

Handled == reqCount' = reqCount + 1

\* the subject query parameter as the handlers read it: its first value
SubjectParam(r) ==
    IF "subject" \in DOMAIN r.query /\ r.query["subject"] # <<>>
    THEN Head(r.query["subject"])
    ELSE ""

\* the request was handed to Publisher.Publish
ReachedPublish(r, resp) == r.route = "/pub" /\ resp.status # 401

StartsWithNats(key) ==
    /\ Len(key) >= 5
    /\ key[1] = "N" /\ key[2] = "a" /\ key[3] = "t" /\ key[4] = "s" /\ key[5] = "-"

\* C5: a request to Publish whose subject is missing or empty, or whose body
\* cannot be read, is answered 400, makes no PublishMsg call and leaves the
\* log's contents unchanged.
C5_ValidationNoSideEffects ==
    [][(/\ Handled
        /\ ReachedPublish(lastReq', lastResp')
        /\ (SubjectParam(lastReq') = "" \/ lastReq'.bodyErr))
       => (/\ lastResp'.status = 400
           /\ lastPublish'.calls = <<>>
           /\ stored' = stored)]_vars

C5_Witness ==
    /\ reqCount > 0
    /\ ReachedPublish(lastReq, lastResp)
    /\ cfg.Server.Key # ""
    /\ SubjectParam(lastReq) = "ORDERS"
    /\ lastReq.bodyErr
    /\ lastResp.status = 400
    /\ Len(stored) = 1

\* C6: a request to Publish with a non-empty subject and a readable body makes
\* exactly one PublishMsg call, with the subject of the query parameter, the
\* request body as payload and exactly the request headers whose key starts
\* with "Nats-", each with all its values; no stored message has a header key
\* without that prefix.
C6_PublishesOnceNatsHeaders ==
    /\ (/\ reqCount > 0
        /\ ReachedPublish(lastReq, lastResp)
        /\ SubjectParam(lastReq) # ""
        /\ ~lastReq.bodyErr)
       => lastPublish.calls =
            <<[Subject |-> SubjectParam(lastReq),
               Data |-> lastReq.body,
               Header |-> [key \in {k \in DOMAIN lastReq.header : StartsWithNats(k)} |->
                              lastReq.header[key]]]>>
    /\ \A i \in 1..Len(stored) :
          \A key \in DOMAIN stored[i].Header : StartsWithNats(key)

C6_Witness ==
    /\ reqCount > 0
    /\ ReachedPublish(lastReq, lastResp)
    /\ lastPublish.accepted
    /\ Len(lastPublish.calls) = 1
    /\ DOMAIN lastPublish.calls[1].Header = {KeyNatsMsgId, KeyNatsExpected, KeyNatsBare}
    /\ lastPublish.calls[1].Header[KeyNatsExpected] = <<"a", "b">>
    /\ stored[Len(stored)] = lastPublish.calls[1]

\* C7: when the log rejects the publish of a request, the response is 500, the
\* message is not stored and the handler made exactly one PublishMsg call.
C7_RejectedPublish ==
    [][(Handled /\ lastPublish'.calls # <<>> /\ ~lastPublish'.accepted)
       => (/\ lastResp'.status = 500
           /\ Len(lastPublish'.calls) = 1
           /\ stored' = stored)]_vars

C7_Witness ==
    /\ reqCount > 0
    /\ lastPublish.calls # <<>>
    /\ ~lastPublish.accepted
    /\ lastResp.status = 500
    /\ SubjectParam(lastReq) = "ORDERS"
    /\ stored = <<>>

AuthorizationOf(r) ==
    IF KeyAuthorization \in DOMAIN r.header THEN Head(r.header[KeyAuthorization]) ELSE ""

\* C8: with a non-empty token configured, a request reaches a handler only if
\* its Authorization header is exactly "Bearer <token>"; every other request
\* gets 401 with WWW-Authenticate: Bearer realm="example", no body, and causes
\* no publish. With an empty token every request reaches its handler.
C8_BearerGate ==
    [][Handled =>
        IF cfg.Server.Key # "" /\ AuthorizationOf(lastReq') # "Bearer " \o cfg.Server.Key
        THEN /\ lastResp' = [status |-> 401,
                             wwwAuthenticate |-> "Bearer realm=\"example\"",
                             body |-> ""]
             /\ lastPublish'.calls = <<>>
             /\ stored' = stored
        ELSE /\ lastResp'.status \in {200, 400, 500}
             /\ lastResp'.wwwAuthenticate = ""]_vars

C8_Witness ==
    /\ reqCount > 0
    /\ cfg.Server.Key = "secret"
    /\ lastReq.route = "/pub"
    /\ AuthorizationOf(lastReq) = "Bearer wrong"
    /\ SubjectParam(lastReq) = "ORDERS"
    /\ ~lastReq.bodyErr
    /\ lastResp.status = 401

\* C9, as claimed: with a token configured, a request to /webhook is not
\* subject to the bearer check and is never answered 401.
C9_Claimed ==
    (reqCount > 0 /\ cfg.Server.Key # "" /\ lastReq.route = "/webhook")
        => lastResp.status # 401

\* C9, amended: the gate is in front of every route of the server: with a
\* token configured, a request to /webhook is answered 401 unless its
\* Authorization header is exactly "Bearer <token>", and reaches
\* TestWebhook.Handle when it is.
C9_GateOnEveryRoute ==
    (reqCount > 0 /\ cfg.Server.Key # "" /\ lastReq.route = "/webhook")
        => IF AuthorizationOf(lastReq) = "Bearer " \o cfg.Server.Key
           THEN lastResp.status \in {200, 400}
           ELSE lastResp.status = 401

C9_Witness ==
    /\ reqCount > 0
    /\ cfg.Server.Key = "secret"
    /\ lastReq.route = "/webhook"
    /\ AuthorizationOf(lastReq) = ""
    /\ SubjectParam(lastReq) = "ORDERS"
    /\ lastResp.status = 401

----------------------------------------------------------------------------
(* Start-up claims, checked under SpecStartup *)

RECURSIVE FlatConsumers(_)
\* the ConsumerConfigs of a configuration, in NewSubscriber's order
FlatConsumers(streams) ==
    IF streams = <<>> THEN <<>>
    ELSE Head(streams).Consumers \o FlatConsumers(Tail(streams))

\* C10, as claimed: a consumer's webhook is its own when its URL is non-empty
\* and the default webhook whenever its URL is empty.
C10_Claimed ==
    \A k \in 1..Len(nsConsumers) :
        LET own == FlatConsumers(cfg.Sub.Streams)[k].Webhook
        IN  nsConsumers[k].webhook = IF own.URL # "" THEN own ELSE cfg.Sub.Webhook

\* C10, amended: a consumer's webhook (URL and key together) is its own when
\* its URL is non-empty, the default webhook when its URL is empty and the
\* default URL is not, and its own (empty URL, own key) when both URLs are
\* empty; the Subscriber holds the same webhooks.
C10_WebhookResolution ==
    /\ \A k \in 1..Len(nsConsumers) :
          LET own == FlatConsumers(cfg.Sub.Streams)[k].Webhook
          IN  nsConsumers[k].webhook =
                IF own.URL # "" THEN own
                ELSE IF cfg.Sub.Webhook.URL # "" THEN cfg.Sub.Webhook
                ELSE own
    /\ pc \in {"subscribe", "serve"} =>
          /\ Len(consumers) = Len(FlatConsumers(cfg.Sub.Streams))
          /\ consumers = nsConsumers

C10_Witness ==
    /\ pc = "subscribe"
    /\ cfg.Sub.Webhook = WebhookConfig("", "dk")
    /\ Len(consumers) = 2
    /\ FlatConsumers(cfg.Sub.Streams)[1].Webhook = WebhookConfig("", "k")
    /\ consumers[1].webhook = WebhookConfig("", "k")
    /\ consumers[2].webhook = WebhookConfig(ExternalURL, "k")


----------------------------------------------------------------------------
(* Provisioning claims *)

\* the last provisioning call was made for a name the log already held
EnsuredExisting ==
    provisioning.last.kind # "none" /\ provisioning.last.existed

\* C11, as claimed: a getOrCreateStream or getOrCreateConsumer call for a name
\* that already exists returns the existing handle and makes no create call,
\* and over all the calls no name gets more than one create call.
C11_Claimed ==
    /\ EnsuredExisting => (~provisioning.last.createCalled /\ ~provisioning.last.err)
    /\ \A e \in DOMAIN provisioning.createCalls : provisioning.createCalls[e] <= 1

\* C20, as claimed: a create call is made only when the lookup reports that
\* the name does not exist; a lookup of an existing name that fails for
\* another reason makes the call return an error without a create call.
C20_Claimed ==
    /\ provisioning.last.createCalled => ~provisioning.last.existed
    /\ provisioning.last.lookupErr =>
            (provisioning.last.err /\ ~provisioning.last.createCalled)

\* the last provisioning call failed: its create call was refused, by a fault
\* or because the name exists with another configuration
ProvisioningFailed ==
    /\ provisioning.last.createCalled
    /\ \/ provisioning.last.createErr
       \/ /\ provisioning.last.kind = "stream"
          /\ provisioning.last.existed
          /\ logStreams[provisioning.last.name] # CreatedStream(provisioning.last.name)
       \/ /\ provisioning.last.kind = "consumer"
          /\ provisioning.last.existed
          /\ logConsumers[provisioning.last.name] # CreatedConsumer

C12_Fatal ==
    ProvisioningFailed =>
        /\ pc = "exit"
        /\ provisioning.last.err
        /\ consumers = <<>>
        /\ contexts = <<>>
        /\ live = {}
        /\ reqCount = 0
        /\ stored = <<>>

C12_Final == ProvisioningFailed => UNCHANGED vars

----------------------------------------------------------------------------
(* Subscriber claims, checked under SpecSubscriber *)

\* ConsumeContext j can go on: when its callback is not running and its
\* consumer has not acknowledged the message the log holds, send can be
\* invoked; when send is waiting for a webhook, it can acknowledge
CanGoOn(j) ==
    IF inflight[j].msg = 0
    THEN <<consumers[contexts[j]].consumer, 1>> \in acked \/ ENABLED SendStart(j, 1)
    ELSE ENABLED AnswerOK(j)

C13_FailedState ==
    pc = "subscribeFailed" =>
        /\ subPos.i < Len(consumers)
        /\ \A h \in 1..subPos.i :
              /\ contexts[Len(contexts) - subPos.i + h] = h
              /\ (Len(contexts) - subPos.i + h) \in live
              /\ CanGoOn(Len(contexts) - subPos.i + h)

C13_InOrder ==
    /\ Len(contexts') > Len(contexts) => contexts' = Append(contexts, subPos.i + 1)
    /\ (pc = "subscribe" /\ pc' = "subscribeFailed") =>
            (contexts' = contexts /\ live' = live)
    /\ (pc = "subscribeFailed" /\ pc' = "subscribeFailed") => contexts' = contexts

\* C13: Subscribe starts the subscriptions in the order of s.consumers, one per
\* iteration; when Consume fails for the k-th consumer it returns with the
\* subscriptions of consumers 1..k-1 started by this call still live (send
\* can be invoked on them and can acknowledge) and starts none for k..n.
C13_FirstFailureAborts ==
    []C13_FailedState /\ [][C13_InOrder]_vars

C13_Witness ==
    /\ pc = "subscribeFailed"
    /\ subPos = [calls |-> 1, i |-> 1]
    /\ contexts = <<1>>
    /\ live = {1}
    /\ inflight[1].msg = 1
    /\ ENABLED AnswerOK(1)

C14_Stopped ==
    /\ pc = "stopped" =>
          /\ live = {}
          /\ \A j \in DOMAIN contexts : \A i \in 1..Len(stored) : ~ENABLED SendStart(j, i)
    /\ pc \in Returned => ENABLED CallStop

C14_NoNewSend ==
    (pc = "stopped" /\ pc' = "stopped") =>
        /\ numDelivered' = numDelivered
        /\ posts' = posts
        /\ \A j \in DOMAIN inflight : inflight[j].msg = 0 => inflight'[j].msg = 0

\* C14: when Stop has returned, whether the Subscribe before it returned nil or
\* an error, or was never called, no ConsumeContext of the Subscriber is live
\* and no send invocation starts (one that is waiting for its webhook runs
\* on); Stop can be called wherever a caller is between two calls, also
\* before Subscribe and after Stop.
C14_StopStopsAll ==
    []C14_Stopped /\ [][C14_NoNewSend]_vars

C14_Witness ==
    /\ pc = "stopped"
    /\ subPos = [calls |-> 1, i |-> 1]
    /\ contexts = <<1>>
    /\ live = {}
    /\ inflight[1].msg = 1

\* the live ConsumeContexts of consumer k
LiveContextsOf(k) == {j \in live : contexts[j] = k}

\* C15, as claimed: after any sequence of Subscribe and Stop calls every
\* consumer has at most one live subscription, and after a Subscribe that
\* returned nil exactly one, the Subscriber holding as many ConsumeContexts
\* as consumers.
C15_Claimed ==
    /\ \A k \in DOMAIN consumers : Cardinality(LiveContextsOf(k)) <= 1
    /\ pc = "serve" =>
          /\ \A k \in DOMAIN consumers : Cardinality(LiveContextsOf(k)) = 1
          /\ Len(contexts) = Len(consumers)

\* C15, amended: as long as Subscribe has been called at most once on the
\* Subscriber (as main does), every consumer has at most one live
\* subscription, and after that Subscribe returned nil exactly one, the
\* Subscriber holding as many ConsumeContexts as consumers; a second Subscribe
\* call starts a second subscription for a consumer that has one.
C15_OnePerConsumer ==
    /\ subPos.calls <= 1 =>
          /\ \A k \in DOMAIN consumers : Cardinality(LiveContextsOf(k)) <= 1
          /\ pc = "serve" =>
                /\ \A k \in DOMAIN consumers : Cardinality(LiveContextsOf(k)) = 1
                /\ Len(contexts) = Len(consumers)
    /\ (subPos.calls = 2 /\ pc = "serve" /\ Len(contexts) = 2 * Len(consumers))
            => \A k \in DOMAIN consumers :
                    Cardinality({j \in DOMAIN contexts : contexts[j] = k}) = 2

C15_Witness ==
    /\ pc = "serve"
    /\ subPos = [calls |-> 1, i |-> 2]
    /\ contexts = <<1, 2>>
    /\ live = {1, 2}
    /\ inflight[1].msg = 1
    /\ inflight[2].msg = 1

----------------------------------------------------------------------------
(* Egress configuration error, checked under SpecLive *)

\* the runtime consumers whose webhook URL does not parse
Misconfigured == {k \in DOMAIN consumers : consumers[k].webhook.URL = MalformedURL}

\* the log has delivered every message the stream of d stored before message i
EarlierDelivered(d, i) ==
    \A h \in 1..(i - 1) :
        stored[h].Subject \in logStreams[d[1]] => Count(numDelivered, <<d, h>>) > 0

\* no send of a consumer whose URL does not parse has POSTed or acknowledged
NoPostNoAck(k) ==
    /\ \A e \in DOMAIN posts : e[1] = k => posts[e] = 0
    /\ \A e \in DOMAIN ackCalls : e[1] = k => ackCalls[e] = 0
    /\ \A a \in acked : a[1] # consumers[k].consumer
    /\ \A j \in DOMAIN inflight : contexts[j] = k => inflight[j].msg = 0
    /\ lastSend[k].msg # 0 => (~lastSend[k].posted /\ lastSend[k].acks = 0)

\* the log can deliver message i to consumer k once more
CanRedeliver(k, i) ==
    \E j \in live : contexts[j] = k /\ ENABLED SendStart(j, i)

\* C16, as claimed: for a consumer whose webhook URL does not parse, send
\* neither POSTs nor acknowledges, no message is ever acknowledged by it, and
\* every message of its stream stays to be redelivered, however often it has
\* been delivered.
C16_Claimed ==
    \A k \in Misconfigured :
        /\ NoPostNoAck(k)
        /\ \A i \in 1..Len(stored) :
              (Pending(k, i) /\ EarlierDelivered(consumers[k].consumer, i))
                  => CanRedeliver(k, i)

\* C16, amended: for a consumer whose webhook URL does not parse, send neither
\* POSTs nor acknowledges and no message is ever acknowledged by it; every
\* message of its stream stays to be redelivered, however often it has been
\* delivered, when the durable consumer has no redelivery limit (MaxDeliver
\* -1, as getOrCreateConsumer creates it), and is not delivered beyond the
\* limit of a consumer that existed with one.
C16_MalformedURL ==
    \A k \in Misconfigured :
        /\ NoPostNoAck(k)
        /\ \A i \in 1..Len(stored) :
              (Pending(k, i) /\ EarlierDelivered(consumers[k].consumer, i))
                  => IF logConsumers[consumers[k].consumer].MaxDeliver = UnlimitedDeliver
                     THEN CanRedeliver(k, i)
                     ELSE CanRedeliver(k, i) <=>
                            Count(numDelivered, <<consumers[k].consumer, i>>)
                                < logConsumers[consumers[k].consumer].MaxDeliver

C16_Witness ==
    \E k \in Misconfigured :
        /\ k \in LiveConsumers
        /\ logConsumers[consumers[k].consumer].MaxDeliver = UnlimitedDeliver
        /\ Count(numDelivered, <<consumers[k].consumer, 1>>) = MaxCount
        /\ lastSend[k] = [msg |-> 1, posted |-> FALSE, acks |-> 0, reply |-> TransportError]
        /\ Count(posts, <<k, 1>>) = 0
        /\ CanRedeliver(k, 1)

----------------------------------------------------------------------------
(* Egress request formation, checked under SpecBacklog *)

\* the name a header key of the model goes by in an HTTP request
WireName(key) ==
    IF key = KeyLowerNats THEN KeyNatsMsgId
    ELSE IF key = KeyLowerAuthorization THEN KeyAuthorization
    ELSE key

Occurrences(seq, v) == Cardinality({n \in DOMAIN seq : seq[n] = v})

\* the values send itself sets for a header of the request
OwnValues(webhook, name) ==
    IF name = KeyContentType THEN <<"application/json">>
    ELSE IF name = KeyAuthorization /\ webhook.Key # "" THEN <<"Bearer " \o webhook.Key>>
    ELSE <<>>

\* the values the message brings for a header of the request
Brought(header, name, v) ==
    Cardinality({e \in {<<key, n>> : key \in DOMAIN header, n \in 1..3} :
                    /\ WireName(e[1]) = name
                    /\ e[2] \in DOMAIN header[e[1]]
                    /\ header[e[1]][e[2]] = v})

RequestFormed(webhook, m, req) ==
    /\ req.method = "POST"
    /\ webhook.URL = ExternalURL =>
          /\ req.host = "h" /\ req.route = "/x"
          /\ req.query = [q \in {"subject"} |-> <<m.Subject>>]
    /\ webhook.URL = QueryURL =>
          /\ req.host = "h" /\ req.route = "/x"
          /\ req.query = [q \in {"a", "subject"} |->
                            IF q = "a" THEN <<"1">> ELSE <<m.Subject>>]
    /\ req.body = m.Data
    /\ ~req.bodyErr
    /\ DOMAIN req.header =
          {KeyContentType} \cup {WireName(key) : key \in DOMAIN m.Header}
              \cup (IF webhook.Key # "" THEN {KeyAuthorization} ELSE {})
    /\ \A name \in DOMAIN req.header :
          LET own == OwnValues(webhook, name)
              got == req.header[name]
          IN  /\ Len(got) >= Len(own)
              /\ SubSeq(got, 1, Len(own)) = own
              /\ \A v \in {got[n] : n \in DOMAIN got} \cup {"v1", "v2", "v3", "X"} :
                    Occurrences(got, v) = Occurrences(own, v) + Brought(m.Header, name, v)

\* C17: the request a send invocation issues for a delivered message is a POST
\* to the consumer's webhook URL with the query parameter subject set to the
\* message's subject, the payload as body, Content-Type: application/json,
\* Authorization: Bearer <key> exactly when the key is not empty, and every
\* value of every header of the message added after the values send has set.
C17_RequestFormation ==
    \A j \in DOMAIN inflight :
        inflight[j].msg # 0 =>
            RequestFormed(consumers[contexts[j]].webhook, stored[inflight[j].msg],
                          inflight[j].req)

C17_Witness ==
    /\ 1 \in DOMAIN inflight
    /\ inflight[1].msg = 1
    /\ consumers[1].webhook = WebhookConfig(ExternalURL, "k")
    /\ inflight[1].req.query = [q \in {"subject"} |-> <<"ORDERS.new">>]
    /\ inflight[1].req.body = "P0"
    /\ inflight[1].req.header =
          [name \in {KeyContentType, KeyAuthorization, KeyNatsMsgId} |->
              IF name = KeyContentType THEN <<"application/json", "text/plain">>
              ELSE IF name = KeyAuthorization THEN <<"Bearer k", "X">>
              ELSE <<"v2", "v3", "v1">>]

----------------------------------------------------------------------------
(* Concurrency and ordering *)

\* the log has message i to deliver on ConsumeContext j, whose callback is
\* not running: nothing here looks at another ConsumeContext
LogOffers(j, i) ==
    LET d == consumers[contexts[j]].consumer
    IN  /\ j \in live
        /\ inflight[j].msg = 0
        /\ stored[i].Subject \in logStreams[d[1]]
        /\ <<d, i>> \notin acked
        /\ \/ logConsumers[d].MaxDeliver = -1
           \/ Count(numDelivered, <<d, i>>) < logConsumers[d].MaxDeliver
        /\ EarlierDelivered(d, i)

\* the send of ConsumeContext b is waiting for its webhook
Blocked(b) == b \in DOMAIN inflight /\ inflight[b].msg # 0

\* C18, checked under Spec: while the send of one ConsumeContext is waiting
\* for its webhook, the send of every other one can start when the log has a
\* message for it and can finish when it is waiting itself, and the server
\* can handle a request.
C18_Independent ==
    \A b \in DOMAIN inflight :
        Blocked(b) =>
            /\ \A j \in DOMAIN inflight \ {b} :
                  /\ \A i \in 1..Len(stored) : LogOffers(j, i) => ENABLED SendStart(j, i)
                  /\ Blocked(j) => ENABLED SendFinish(j)
            /\ (pc = "serve" /\ reqCount < MaxRequests) =>
                    \A r \in FewRequests : ENABLED HandleRequest(r)

C18_Witness ==
    /\ pc = "serve"
    /\ reqCount < MaxRequests
    /\ DOMAIN inflight = {1, 2}
    /\ inflight[1].msg = 1
    /\ inflight[2].msg = 1
    /\ ENABLED AnswerOK(2)
    /\ ENABLED AnswerOK(1)
    /\ ENABLED Serve

\* the sends of consumer k that are waiting for a webhook
InFlightOf(k) == {j \in DOMAIN inflight : contexts[j] = k /\ inflight[j].msg # 0}

C19_OneAtATime ==
    \A k \in DOMAIN consumers : Cardinality(InFlightOf(k)) <= 1

C19_InOrder ==
    /\ \A j \in DOMAIN inflight :
          inflight[j].msg # 0 => (inflight'[j] = inflight[j] \/ inflight'[j].msg = 0)
    /\ \A k \in DOMAIN consumers : \A i \in 1..Len(stored) :
          (Count(posts, <<k, i>>) = 0 /\ Count(posts', <<k, i>>) > 0)
              => \A h \in 1..(i - 1) :
                    stored[h].Subject \in logStreams[consumers[k].consumer[1]]
                        => Count(posts, <<k, h>>) > 0

\* C19, checked under SpecBacklog: a consumer has at most one send waiting for
\* its webhook; a send that is waiting is not followed by another before it
\* has returned; and the first POST of a message comes after the first POST of
\* every message its stream stored before.
C19_PerConsumerOrder ==
    []C19_OneAtATime /\ [][C19_InOrder]_vars

C19_Witness ==
    /\ Len(stored) = 2
    /\ 1 \in DOMAIN inflight
    /\ inflight[1].msg = 2
    /\ Count(posts, <<1, 1>>) = 1
    /\ Count(posts, <<1, 2>>) = 1
    /\ <<consumers[1].consumer, 1>> \notin acked
    /\ lastSend[1].msg = 1
    /\ lastSend[1].acks = 0

----------------------------------------------------------------------------
(* The query of the webhook request, checked under SpecBacklog *)

\* the send of ConsumeContext j that is waiting for its webhook: the query of
\* its request, the pairs of the configured URL and the message
SendQuery(j) == inflight[j].req.query
ConfiguredPairs(j) == RawQuery(consumers[contexts[j]].webhook.URL)
Delivered(j) == stored[inflight[j].msg]

Values(q, key) == IF key \in DOMAIN q THEN {q[key][n] : n \in DOMAIN q[key]} ELSE {}

\* C21, as claimed: the query of the request holds every parameter of the
\* configured webhook URL, one named subject included, and a subject parameter
\* equal to the subject of the delivered message.
C21_Claimed ==
    \A j \in DOMAIN inflight :
        inflight[j].msg # 0 =>
            /\ \A n \in DOMAIN ConfiguredPairs(j) :
                  ConfiguredPairs(j)[n].value \in Values(SendQuery(j), ConfiguredPairs(j)[n].key)
            /\ Delivered(j).Subject \in Values(SendQuery(j), "subject")

\* C21, amended: the query of the request holds every parameter of the
\* configured webhook URL that can be unescaped and is not named subject, with
\* its values in the order of the URL, and one subject parameter whose only
\* value is the subject of the delivered message: a subject parameter of the
\* URL is replaced, a parameter that cannot be unescaped is dropped.
C21_SubjectSet ==
    \A j \in DOMAIN inflight :
        inflight[j].msg # 0 =>
            LET raw == ConfiguredPairs(j)
                kept == {raw[n].key : n \in {x \in DOMAIN raw : raw[x].escaped}}
            IN  /\ DOMAIN SendQuery(j) = kept \cup {"subject"}
                /\ SendQuery(j)["subject"] = <<Delivered(j).Subject>>
                /\ \A key \in kept \ {"subject"} :
                      SendQuery(j)[key] =
                          [n \in 1..Cardinality({x \in DOMAIN raw :
                                                    raw[x].key = key /\ raw[x].escaped}) |->
                              LET at == CHOOSE x \in DOMAIN raw :
                                          /\ raw[x].key = key /\ raw[x].escaped
                                          /\ Cardinality({y \in 1..x :
                                                raw[y].key = key /\ raw[y].escaped}) = n
                              IN  raw[at].value]

C21_Witness ==
    \E j \in DOMAIN inflight :
        /\ inflight[j].msg # 0
        /\ consumers[contexts[j]].webhook.URL = QueryURL
        /\ ConfiguredPairs(j)[2] = Pair("subject", "old", TRUE)
        /\ SendQuery(j) =
              [q \in {"a", "subject"} |-> IF q = "a" THEN <<"1">> ELSE <<"ORDERS.new">>]

----------------------------------------------------------------------------
(* Retries, checked under Spec *)

\* the pairs of a consumer and a stored message
Deliveries == {e \in (DOMAIN consumers) \X (1..Len(stored)) : TRUE}
DeliveredTimes(e) == Count(numDelivered, <<consumers[e[1]].consumer, e[2]>>)

C22_NoMoreThanDelivered ==
    /\ \A e \in DOMAIN posts : e \in Deliveries /\ posts[e] <= DeliveredTimes(e)
    /\ Len(lastPublish.calls) <= 1

C22_OnePerInvocation ==
    /\ \A e \in DOMAIN posts' :
          Count(posts, e) # posts'[e] =>
              /\ posts'[e] = Count(posts, e) + 1
              /\ Count(numDelivered', <<consumers[e[1]].consumer, e[2]>>)
                    = DeliveredTimes(e) + 1
              /\ \A o \in DOMAIN posts' \ {e} : Count(posts, o) = posts'[o]
    /\ Len(stored') <= Len(stored) + 1
    /\ Len(stored') > Len(stored) => (Handled /\ Len(lastPublish'.calls) = 1)

\* C22: a step issues at most one webhook POST, and only as the log delivers
\* the message to the consumer, so the POSTs of a message by a consumer never
\* outnumber its deliveries; a request makes at most one PublishMsg call and
\* stores at most one message.
C22_NoLocalRetries ==
    []C22_NoMoreThanDelivered /\ [][C22_OnePerInvocation]_vars

C22_Witness ==
    /\ \E e \in DOMAIN posts :
          /\ posts[e] = 2
          /\ DeliveredTimes(e) = 2
          /\ Count(ackCalls, e) = 0
          /\ lastSend[e[1]].msg = e[2]
          /\ lastSend[e[1]].posted
          /\ lastSend[e[1]].reply.status = 503
    /\ Len(lastPublish.calls) = 1
    /\ ~lastPublish.accepted
    /\ lastResp.status = 500

----------------------------------------------------------------------------
(* Stop and the sends that are waiting, checked under SpecSubscriber *)

\* the send of ConsumeContext j is waiting for its webhook and the context
\* has been stopped
WaitingStopped(j) == j \notin live /\ inflight[j].msg # 0

StopReturns == pc' = "stopped" /\ (pc # "stopped" \/ live' # live)

C23_RunsOn ==
    \A j \in DOMAIN inflight :
        WaitingStopped(j) => (ENABLED SendFinish(j) /\ ENABLED AnswerOK(j))

C23_NotCancelled ==
    /\ StopReturns => (inflight' = inflight /\ acked' = acked /\ lastSend' = lastSend)
    /\ \A j \in DOMAIN inflight :
          (WaitingStopped(j) /\ inflight'[j] # inflight[j]) =>
              LET k == contexts[j]
                  i == inflight[j].msg
              IN  /\ inflight'[j] = Idle
                  /\ lastSend'[k].msg = i
                  /\ lastSend'[k].posted
                  /\ sendOK(lastSend'[k].reply) =>
                        /\ <<consumers[k].consumer, i>> \in acked'
                        /\ Count(ackCalls', <<k, i>>) = Bump(Count(ackCalls, <<k, i>>))
                  /\ ~sendOK(lastSend'[k].reply) => (acked' = acked /\ ackCalls' = ackCalls)

\* C23: a Stop call leaves the sends that are waiting for their webhooks as
\* they are; such a send can still get any answer, ends only by its answer,
\* and acknowledges the message when the answer is a 200 it can read, the
\* ConsumeContext being stopped by then.
C23_StopLeavesInFlight ==
    []C23_RunsOn /\ [][C23_NotCancelled]_vars

C23_Witness ==
    /\ pc = "stopped"
    /\ Len(contexts) = 2
    /\ WaitingStopped(2)
    /\ inflight[1].msg = 0
    /\ acked = {}
    /\ ENABLED AnswerOK(2)

----------------------------------------------------------------------------
(* The test webhook, checked under SpecSink *)

\* consumer k POSTs to the test webhook of this process
OnTestWebhook(k) ==
    /\ urlParse(consumers[k].webhook.URL).host = "127.0.0.1" \o cfg.Server.Addr
    /\ urlParse(consumers[k].webhook.URL).path = "/webhook"

\* the last send of consumer k got an answer
Answered(k) == lastSend[k].msg # 0 /\ lastSend[k].posted /\ ~lastSend[k].reply.err

\* the key of consumer k passes the server's gate
KeyPasses(k) == cfg.Server.Key = "" \/ consumers[k].webhook.Key = cfg.Server.Key

\* C24, as claimed: every request to /webhook is answered 200, and every send
\* of a consumer on the test webhook acknowledges.
C24_Claimed ==
    /\ (reqCount > 0 /\ lastReq.route = "/webhook") => lastResp.status = 200
    /\ \A k \in DOMAIN lastSend :
          (OnTestWebhook(k) /\ lastSend[k].msg # 0) => lastSend[k].acks = 1

\* C24, amended: a request to /webhook is answered 401 by the gate when a
\* token is set and its Authorization header is not "Bearer <token>";
\* otherwise 400 when its subject is missing or empty or its body cannot be
\* read, and 200 when it has a subject and a readable body; it publishes
\* nothing. A send of a consumer on the test webhook that got an answer got
\* 200 and acknowledged when the consumer's key passes the gate, and got 401
\* and did not acknowledge when it does not.
C24_TestWebhook ==
    /\ (reqCount > 0 /\ lastReq.route = "/webhook") =>
          /\ lastResp.status =
                IF cfg.Server.Key # "" /\ AuthorizationOf(lastReq) # "Bearer " \o cfg.Server.Key
                THEN 401
                ELSE IF SubjectParam(lastReq) = "" \/ lastReq.bodyErr THEN 400
                ELSE 200
          /\ lastPublish.calls = <<>>
    /\ \A k \in DOMAIN lastSend :
          (OnTestWebhook(k) /\ Answered(k)) =>
              IF KeyPasses(k)
              THEN lastSend[k].reply.status = 200 /\ lastSend[k].acks = 1
              ELSE lastSend[k].reply.status = 401 /\ lastSend[k].acks = 0

C24_Witness ==
    /\ reqCount = 2
    /\ lastReq.route = "/webhook"
    /\ cfg.Server.Key = "secret"
    /\ AuthorizationOf(lastReq) = "Bearer secret"
    /\ SubjectParam(lastReq) = ""
    /\ lastResp.status = 400
    /\ consumers[1].webhook = WebhookConfig(TestWebhookURL(DefaultAddr), "")
    /\ Answered(1)
    /\ lastSend[1].reply.status = 401
    /\ Count(posts, <<1, 1>>) = 2

----------------------------------------------------------------------------
(* The default webhook, checked under SpecDefault *)

\* the webhook consumer k was configured with
OwnWebhook(k) == FlatConsumers(cfg.Sub.Streams)[k].Webhook

\* consumer k has no URL of its own and falls back to the default webhook
FallsBack(k) == k \in DOMAIN consumers /\ OwnWebhook(k).URL = ""

\* C25, as claimed: with the test webhook as the default webhook, every stored
\* message is eventually acknowledged by a subscribed consumer that falls back
\* to the default webhook, whatever the server key.
C25_Claimed ==
    \A k \in ConsumerIds : \A i \in MessageIds :
        []((Pending(k, i) /\ FallsBack(k)) => <>Settled(k, i))

C25_KeyOfDefault ==
    \A k \in DOMAIN consumers :
        IF OwnWebhook(k).URL = ""
        THEN /\ consumers[k].webhook =
                    WebhookConfig(TestWebhookURL(cfg.Server.Addr), cfg.Server.Key)
             /\ KeyPasses(k)
        ELSE /\ consumers[k].webhook = OwnWebhook(k)
             /\ ~KeyPasses(k) =>
                    /\ \A i \in 1..Len(stored) : <<consumers[k].consumer, i>> \notin acked
                    /\ Answered(k) => lastSend[k].reply.status = 401

\* C25, amended: with the test webhook as the default webhook, a consumer that
\* falls back to it has the server key as its key, whatever that key is, and
\* every stored message is eventually acknowledged by such a consumer when it
\* is subscribed and the log redelivers to it without bound; a consumer that
\* names the test webhook by its own URL keeps its own key, and with a server
\* key that differs from it every answer it gets is 401 and it acknowledges
\* nothing.
C25_DefaultDelivers ==
    /\ []C25_KeyOfDefault
    /\ \A k \in ConsumerIds : \A i \in MessageIds :
          []((Pending(k, i) /\ FallsBack(k) /\ Unbounded(k)) => <>Settled(k, i))

C25_Witness ==
    /\ cfg.Server.Key = "secret"
    /\ FallsBack(1)
    /\ Unbounded(1)
    /\ 1 \in LiveConsumers
    /\ consumers[1].webhook.Key = "secret"
    /\ Answered(1)
    /\ lastSend[1].reply = Reply(FALSE, 200, FALSE)
    /\ Count(posts, <<1, 1>>) = 2
    /\ <<consumers[1].consumer, 1>> \in acked

----------------------------------------------------------------------------
(* What a producer can put into the webhook request, checked under SpecSink *)

\* the headers of a request whose key starts with "Nats-"
NatsPart(h) == [key \in {k \in DOMAIN h : StartsWithNats(k)} |-> h[key]]

\* headers without that prefix a producer may send
PlainExtras ==
    {EmptyMap,
     [k \in {KeyLowerAuthorization} |-> <<"Bearer k">>],
     [k \in {KeyContentType, KeyLowerNats, KeyXNats, KeyNatsShort, KeyNatsNoDash} |->
        <<"other">>]}

\* the requests that differ from r only in headers without the prefix
Variants(r) ==
    {[r EXCEPT !.header =
          Header(auth, [x \in DOMAIN NatsPart(r.header) \cup DOMAIN extra |->
                           IF x \in DOMAIN extra THEN extra[x] ELSE r.header[x]])] :
        auth \in Authorizations, extra \in PlainExtras}

\* the webhook requests the consumers build for published messages
WebhookRequests(msgs) ==
    UNION {{sendRequest(consumers[k].webhook, msgs[n], order) :
                order \in Orders(DOMAIN msgs[n].Header)} :
            k \in DOMAIN consumers, n \in DOMAIN msgs}

\* C26: the request of a send that is waiting carries as Authorization and
\* Content-Type exactly what send sets (Bearer <key> when the consumer's key
\* is not empty, no Authorization when it is, application/json); and a request
\* that differs from the one just handled only in headers without the "Nats-"
\* prefix, and passes the gate as it did, publishes the same message, for
\* which the consumers build the same webhook requests.
C26_OnlySendSetsAuth ==
    /\ \A j \in DOMAIN inflight :
          inflight[j].msg # 0 =>
              LET webhook == consumers[contexts[j]].webhook
                  header == inflight[j].req.header
              IN  /\ header[KeyContentType] = <<"application/json">>
                  /\ IF webhook.Key = ""
                     THEN KeyAuthorization \notin DOMAIN header
                     ELSE header[KeyAuthorization] = <<"Bearer " \o webhook.Key>>
    /\ (reqCount > 0 /\ ReachedPublish(lastReq, lastResp)) =>
          \A r \in Variants(lastReq) :
              (cfg.Server.Key = "" \/ AuthorizationOf(r) = "Bearer " \o cfg.Server.Key) =>
                  LET published == ServeHTTP(cfg.Server.Key, r, lastPublish.accepted).published
                  IN  /\ published = lastPublish.calls
                      /\ WebhookRequests(published) = WebhookRequests(lastPublish.calls)

C26_Witness ==
    /\ reqCount > 0
    /\ lastPublish.accepted
    /\ cfg.Server.Key = "secret"
    /\ AuthorizationOf(lastReq) = "Bearer secret"
    /\ lastReq.header[KeyContentType] = <<"v">>
    /\ \E j \in DOMAIN inflight :
          /\ inflight[j].msg = Len(stored)
          /\ consumers[contexts[j]].webhook.Key = ""
          /\ DOMAIN inflight[j].req.header =
                {KeyContentType, KeyNatsMsgId, KeyNatsExpected, KeyNatsBare}
          /\ inflight[j].req.header[KeyContentType] = <<"application/json">>
          /\ inflight[j].req.header[KeyNatsExpected] = <<"a", "b">>

----------------------------------------------------------------------------
(* Acknowledgment per consumer, checked under SpecShared *)

\* another durable consumer of the stream of ConsumeContext j has
\* acknowledged message i, and the consumer of j has not
AckedByAnother(j, i) ==
    LET d == consumers[contexts[j]].consumer
    IN  /\ <<d, i>> \notin acked
        /\ \E k \in DOMAIN consumers :
              /\ consumers[k].consumer # d
              /\ consumers[k].consumer[1] = d[1]
              /\ <<consumers[k].consumer, i>> \in acked

\* C27, as claimed: a message another consumer of the stream has acknowledged
\* and this consumer has not keeps being delivered to this consumer: its live
\* ConsumeContext, when its callback is not running, can be given the message.
C27_Claimed ==
    \A j \in DOMAIN inflight : \A i \in 1..Len(stored) :
        (/\ AckedByAnother(j, i)
         /\ j \in live
         /\ inflight[j].msg = 0
         /\ stored[i].Subject \in logStreams[consumers[contexts[j]].consumer[1]]
         /\ EarlierDelivered(consumers[contexts[j]].consumer, i))
            => ENABLED SendStart(j, i)

C27_StillDelivered ==
    \A j \in DOMAIN inflight : \A i \in 1..Len(stored) :
        (AckedByAnother(j, i) /\ LogOffers(j, i)) => ENABLED SendStart(j, i)

C27_OwnAckOnly ==
    acked' # acked =>
        \E j \in DOMAIN inflight :
            LET i == inflight[j].msg
                k == contexts[j]
            IN  /\ i # 0
                /\ inflight' = [inflight EXCEPT ![j] = Idle]
                /\ sendOK(lastSend'[k].reply)
                /\ lastSend'[k].msg = i
                /\ acked' = acked \cup {<<consumers[k].consumer, i>>}
                /\ numDelivered' = numDelivered
                /\ posts' = posts
                /\ \A o \in DOMAIN lastSend \ {k} : lastSend'[o] = lastSend[o]
                /\ \A e \in DOMAIN ackCalls' : e[1] # k => Count(ackCalls, e) = ackCalls'[e]

\* C27, amended: an acknowledgment is made by a send of the consumer itself
\* whose webhook answered 200, and adds that consumer's acknowledgment of
\* that message and nothing else: the deliveries, the POSTs, the waiting
\* sends and the acknowledgments of every other consumer stay as they are. A
\* message another consumer has acknowledged is still delivered to a consumer
\* that has not, as long as the log has deliveries left for that consumer.
C27_AckPerConsumer ==
    []C27_StillDelivered /\ [][C27_OwnAckOnly]_vars

C27_Witness ==
    /\ Len(consumers) = 2
    /\ <<consumers[2].consumer, 1>> \in acked
    /\ <<consumers[1].consumer, 1>> \notin acked
    /\ lastSend[1].msg = 1
    /\ lastSend[1].acks = 0
    /\ Count(numDelivered, <<consumers[1].consumer, 1>>) = 1
    /\ AckedByAnother(1, 1)
    /\ ENABLED SendStart(1, 1)

====
